---- MODULE Spec2Model ----
(***************************************************************************)
(* A model of the open-dan agent core.                                     *)
(*                                                                         *)
(*  - Spec:         the agent loop (Agent.processMessage) with the context *)
(*                  manager and the conversation store it reads and writes *)
(*  - FallbackSpec: the provider fallback chain (FallbackProvider.Chat)    *)
(*                  together with the caller's use of its return values    *)
(***************************************************************************)
EXTENDS Integers, Sequences, FiniteSets, TLC

VARIABLES
    \* ---- conversation store (internal/memory/sqlite.go)
    store,          \* chat id -> sequence of saved messages, in insertion order
    summaries,      \* chat id -> stored summary ("" when there is no row)
    \* ---- one turn of Agent.processMessage
    pc,             \* "idle" | "loop" | "chat" | "tools" | "done"
    chatID,         \* the turn's chatID parameter
    userText,       \* the turn's userText parameter
    messages,       \* the working list (local variable messages)
    toolCallCount,  \* local variable toolCallCount
    req,            \* the Messages of the ChatRequest last handed to Provider.Chat
    resp,           \* the LLMResponse last returned by Provider.Chat
    tcIdx,          \* position of the range loop over resp.ToolCalls (1-based)
    result,         \* what processMessage returned: [kind, text]
    \* ---- observation of the turn (history variables, not program state)
    turns,          \* number of turns started
    provCalls,      \* main-loop Provider.Chat calls made in this turn
    sumCalls,       \* summarizer Provider.Chat calls made in this turn
    sumOut,         \* while a request is outstanding: what the summarizer call of
                    \* this loop head returned (NIL: no call)
    prevMsgs,       \* while a request is outstanding: the working list as it
                    \* entered this loop head
    execLog,        \* per tool call of this turn, in execution order: [ID, Name, kind]
    nextID,         \* the provider's next fresh tool-call id in this turn
    store0,         \* the chat's stored messages when the turn began
    \* ---- FallbackProvider.Chat (one request)
    providers,      \* the chain: per provider what its Chat returns for the request
    fbPc,           \* "call" | "returned" | "used"
    fbIdx,          \* position of the range loop over f.providers (1-based)
    lastErr,        \* local variable lastErr
    invoked,        \* indexes of the providers whose Chat was called, in order
    fbRet,          \* the pair returned: [resp, err]
    caller,         \* what the caller (agent loop lines 71-82) did with fbRet
    \* ---- security.Sanitizer and the two paths to the agent
    sEnabled,       \* Sanitizer.enabled
    sFilters,       \* Sanitizer.filters: the prefixes of the enabled filters, in order
    mappings,       \* Sanitizer.mappings: placeholder -> original value
    counter,        \* Sanitizer.counter: prefix -> last number handed out
    guiPc,          \* App.SendMessage: "idle" | "sanitized" | "answered" | "returned"
    guiText,        \* SendMessage's parameter text
    guiSan,         \* local variable sanitized
    guiResp,        \* local variable response
    guiOut,         \* what SendMessage returned
    provSeen,       \* the user text last handed to processMessage: [path, text, sanitized]
    chanOut,        \* the OutboundMessage text last sent by handleMessage: [text, restored]
    clearedSince,   \* history: the map was cleared since SendMessage's Sanitize call
    issued,         \* history: <<literal, placeholder>> pairs handed out since the last clear
    firsts,         \* history: per new map entry since the last clear: [lit, ph, prefix]
    \* ---- memory.SQLiteMemory
    rows,           \* table messages: a set of rows
    nextRowID,      \* the AUTOINCREMENT sequence of table messages
    sumRows,        \* table summaries: a set of [chat_id, summary] rows
    memHist,        \* what the last GetHistory returned: [chat, limit, msgs] (NIL: none)
    memSum,         \* what the last GetSummary returned: [chat, summary, err] (NIL: none)
    saved,          \* history: per chat, the messages passed to SaveMessage, in order
    lastSummary,    \* history: per chat, whether SaveSummary was called and its last text
    \* ---- tool.ShellTool (one Execute call)
    shSandbox,      \* ShellTool.sandboxEnabled
    shCmd,          \* params.Command, one character per element
    shRes,          \* the Result returned: [IsError, Error] (NIL: no call yet)
    shSpawned,      \* whether exec.CommandContext("sh", "-c", ...) was run
    \* ---- tool.FilesystemTool and the file tree it works on
    fsNodes,        \* the file tree: real path -> [kind, target, data]
    fsCall,         \* params of the last Execute: [action, path] (NIL: no call yet)
    fsRes,          \* the Result returned: [IsError, Error] (NIL: no call yet)
    fsTouched,      \* real paths the last call read, wrote, created or listed
    fsParentLoc,    \* where the parent of the requested path really lay at the call
    \* ---- tool.BrowserTool, called from concurrent goroutines
    brAllowed,      \* cfg.AllowedDomains
    brDenied,       \* cfg.DeniedDomains
    brPages,        \* keys of t.pages: n stands for "page_n"
    brNextID,       \* t.nextID
    brMu,           \* holder of t.mu ("none": free)
    brPc,           \* per goroutine, where its Execute call stands
    brReq,          \* per goroutine, the params of the call under way
    brLast,         \* the Result returned last: [IsError, Error] (NIL: none yet)
    brMinted,       \* history: every page id minted so far
    brBrowser,      \* whether t.browser is set (a browser process runs)
    brLeaked,       \* pages open in the browser process that t.pages does not hold
    \* ---- skill.SkillTool (one Execute call)
    skSandbox,      \* SkillTool.sandbox
    skCmd,          \* manifest.Command, one character per element
    skRes,          \* the Result returned: [IsError, Error] (NIL: no call yet)
    skSpawned,      \* the program and arguments handed to exec (<< >>: none)
    \* ---- llm error classification of one provider error
    clsMsg,         \* err.Error(), one character per element (<< >>: no error yet)
    clsOpenAI,      \* Type set by classifyOpenAIError (NIL: not called)
    clsAnthropic,   \* Type set by classifyAnthropicError (NIL: not called)
    \* ---- security.KeyStore: the OS keyring and the encrypted vault file
    ksHasKey,       \* whether KeyStore.encryptionKey is set
    ksRing,         \* the OS keyring: name -> [present, value]
    ksVault,        \* the vault file: [exists, entries: name -> [present, value]]
    ksLive,         \* history: per name, the value of the last Set if it succeeded
    ksLast,         \* the last call: [op, name, value, err, ringFailed, vaultFailed]
    ksGone,         \* history: the names whose last Set or Delete was a Delete without error
    \* ---- App: the configuration in memory and on disk, and its secrets
    appKeyStore,    \* a.keyStore != nil
    appCfg,         \* a.cfg: [apiKey, tg, token] (tg: Channels.Telegram != nil)
    appDisk,        \* config.json: [apiKey, tg, token]
    appRing,        \* the OS keyring the key store writes to
    appPc,          \* "boot", "ready", "saving" (saveConfig has called itself), "crashed"
    appLast,        \* the last saveConfig that returned: [ok, before] (NIL: none)
    \* ---- turns of the agent dispatched by the Telegram handler and by the GUI
    tnTurns,        \* the calls of processMessage so far: [chat, via, pc], in order of dispatch
    tnStore,        \* the messages table in insertion order: [chat, role, turn]
    tnSending,      \* the Dashboard's sending state
    \* ---- one turn of the agent loop under a cancellable context
    cxPc,           \* where processMessage is: idle, chat, inchat, act, intool, returned
    cxCancelled,    \* whether ctx.Done() is closed
    cxCalls,        \* the tool calls of the response still to execute, by tool name
    cxCount,        \* toolCallCount
    cxRan,          \* the tools whose Execute did its work although ctx was already cancelled
    cxResults,      \* the content of the tool messages appended in this turn
    cxOut,          \* what processMessage returned: [err, stored] (NIL: not returned)
    \* ---- Agent.handleMessage: one inbound channel message and its reply
    hmPc,           \* where the handler is: idle, process, failed, respond, done
    hmMsg,          \* the inbound message: [channel, chat] (NIL: none yet)
    hmEvents,       \* the topics published on the bus since the message arrived
    hmSends,        \* the calls of Channel.Send: [channel, chat, text, err]
    hmLegs,         \* the provider calls of the turn so far
    hmErr,          \* whether processMessage returned an error
    \* ---- tool.Registry: the name-keyed table of tools
    rgTools,        \* Registry.tools: a function from the registered names to tools
    rgLast,         \* history: per name, the last Register or Unregister: [op, tool]
    rgRet,          \* what the last Get, List or Definitions returned (NIL after a mutation)
    \* ---- eventbus.Bus: subscriptions and one publishing caller
    ebHandlers,     \* Bus.handlers: a function from the topics subscribed to the handlers, in order
    ebSubs,         \* history: the topic of each subscription, by handler id
    ebPc,           \* where the publisher is: idle, copied, returned
    ebEvent,        \* the event being published: [topic, payload] (NIL: none)
    ebQueue,        \* Publish's local handlers slice, the part not yet called
    ebAtCall,       \* history: the handlers of the topic when Publish was called
    ebLog,          \* history: the handler calls made: [handler, topic, payload]
    \* ---- channel.TelegramChannel: the allow-list in front of the message handler
    tgAllowed,      \* TelegramChannel.allowedIDs: the keys of the map (every value is true)
    tgHandler,      \* whether OnMessage has registered a handler
    tgLog,          \* history: the messages handed to the handler: [sender, chat]
    tgLast,         \* history: the last text update: [sender, chat, handler, handed] (NIL: none)
    \* ---- App.SaveLLMConfig: the provider name and base URL of the configuration
    lcCfg,          \* a.cfg.LLM: [provider, baseURL]
    lcDisk,         \* config.json: [provider, baseURL]
    lcAgent,        \* the provider of the running agent ("none": no agent)
    lcLast          \* history: the last SaveLLMConfig: [provider, baseURL, err, cfg, disk, agent] (NIL: none)

agentVars == <<store, summaries, pc, chatID, userText, messages, toolCallCount,
               req, resp, tcIdx, result, turns, provCalls, sumCalls, sumOut,
               prevMsgs, execLog, nextID, store0>>
fbVars == <<providers, fbPc, fbIdx, lastErr, invoked, fbRet, caller>>
sanVars == <<sEnabled, sFilters, mappings, counter, guiPc, guiText, guiSan,
             guiResp, guiOut, provSeen, chanOut, clearedSince, issued, firsts>>
memVars == <<rows, nextRowID, sumRows, memHist, memSum, saved, lastSummary>>
shVars == <<shSandbox, shCmd, shRes, shSpawned>>
fsVars == <<fsNodes, fsCall, fsRes, fsTouched, fsParentLoc>>
brVars ==
    <<brAllowed, brDenied, brPages, brNextID, brMu, brPc, brReq, brLast,
      brMinted, brBrowser, brLeaked>>
skVars == <<skSandbox, skCmd, skRes, skSpawned>>
clsVars == <<clsMsg, clsOpenAI, clsAnthropic>>
ksVars == <<ksHasKey, ksRing, ksVault, ksLive, ksLast, ksGone>>
appVars == <<appKeyStore, appCfg, appDisk, appRing, appPc, appLast>>
tnVars == <<tnTurns, tnStore, tnSending>>
cxVars == <<cxPc, cxCancelled, cxCalls, cxCount, cxRan, cxResults, cxOut>>
hmVars == <<hmPc, hmMsg, hmEvents, hmSends, hmLegs, hmErr>>
rgVars == <<rgTools, rgLast, rgRet>>
ebVars == <<ebHandlers, ebSubs, ebPc, ebEvent, ebQueue, ebAtCall, ebLog>>
tgVars == <<tgAllowed, tgHandler, tgLog, tgLast>>
lcVars == <<lcCfg, lcDisk, lcAgent, lcLast>>
coreVars == <<agentVars, fbVars, sanVars, memVars>>
notAgentVars ==
    <<fbVars, sanVars, memVars, shVars, fsVars, brVars, skVars, clsVars,
      ksVars, appVars, tnVars, cxVars, hmVars, rgVars, ebVars, tgVars,
      lcVars>>
notFbVars ==
    <<agentVars, sanVars, memVars, shVars, fsVars, brVars, skVars, clsVars,
      ksVars, appVars, tnVars, cxVars, hmVars, rgVars, ebVars, tgVars,
      lcVars>>
notSanVars ==
    <<agentVars, fbVars, memVars, shVars, fsVars, brVars, skVars, clsVars,
      ksVars, appVars, tnVars, cxVars, hmVars, rgVars, ebVars, tgVars,
      lcVars>>
notMemVars ==
    <<agentVars, fbVars, sanVars, shVars, fsVars, brVars, skVars, clsVars,
      ksVars, appVars, tnVars, cxVars, hmVars, rgVars, ebVars, tgVars,
      lcVars>>
notShVars ==
    <<coreVars, fsVars, brVars, skVars, clsVars, ksVars, appVars, tnVars,
      cxVars, hmVars, rgVars, ebVars, tgVars, lcVars>>
notFsVars ==
    <<coreVars, shVars, brVars, skVars, clsVars, ksVars, appVars, tnVars,
      cxVars, hmVars, rgVars, ebVars, tgVars, lcVars>>
notBrVars ==
    <<coreVars, shVars, fsVars, skVars, clsVars, ksVars, appVars, tnVars,
      cxVars, hmVars, rgVars, ebVars, tgVars, lcVars>>
notSkVars ==
    <<coreVars, shVars, fsVars, brVars, clsVars, ksVars, appVars, tnVars,
      cxVars, hmVars, rgVars, ebVars, tgVars, lcVars>>
notClsVars ==
    <<coreVars, shVars, fsVars, brVars, skVars, ksVars, appVars, tnVars,
      cxVars, hmVars, rgVars, ebVars, tgVars, lcVars>>
notKsVars ==
    <<coreVars, shVars, fsVars, brVars, skVars, clsVars, appVars, tnVars,
      cxVars, hmVars, rgVars, ebVars, tgVars, lcVars>>
notAppVars ==
    <<coreVars, shVars, fsVars, brVars, skVars, clsVars, ksVars, tnVars,
      cxVars, hmVars, rgVars, ebVars, tgVars, lcVars>>
notTnVars ==
    <<coreVars, shVars, fsVars, brVars, skVars, clsVars, ksVars, appVars,
      cxVars, hmVars, rgVars, ebVars, tgVars, lcVars>>
notCxVars ==
    <<coreVars, shVars, fsVars, brVars, skVars, clsVars, ksVars, appVars,
      tnVars, hmVars, rgVars, ebVars, tgVars, lcVars>>
notHmVars ==
    <<coreVars, shVars, fsVars, brVars, skVars, clsVars, ksVars, appVars,
      tnVars, cxVars, rgVars, ebVars, tgVars, lcVars>>
notRgVars ==
    <<coreVars, shVars, fsVars, brVars, skVars, clsVars, ksVars, appVars,
      tnVars, cxVars, hmVars, ebVars, tgVars, lcVars>>
notEbVars ==
    <<coreVars, shVars, fsVars, brVars, skVars, clsVars, ksVars, appVars,
      tnVars, cxVars, hmVars, rgVars, tgVars, lcVars>>
notTgVars ==
    <<coreVars, shVars, fsVars, brVars, skVars, clsVars, ksVars, appVars,
      tnVars, cxVars, hmVars, rgVars, ebVars, lcVars>>
notLcVars ==
    <<coreVars, shVars, fsVars, brVars, skVars, clsVars, ksVars, appVars,
      tnVars, cxVars, hmVars, rgVars, ebVars, tgVars>>
vars ==
    <<agentVars, fbVars, sanVars, memVars, shVars, fsVars, brVars, skVars,
      clsVars, ksVars, appVars, tnVars, cxVars, hmVars, rgVars, ebVars,
      tgVars, lcVars>>

----------------------------------------------------------------------------
(* Bounds of the model *)

MaxTurns == 2
MaxProviders == 3

(* Configuration of the agent (config.AgentConfig), scaled down *)
MaxToolCalls == 3
SummarizeAt == 22

(* Program constants *)
HistoryLimit == 50
RecentKeep == 4

ChatIDs == {"c1", "c2"}
(* The chat of the next message: chat ids are interchangeable names, so the *)
(* first message of a run is taken to arrive in "c1"                        *)
TurnChats(n) == IF n = 0 THEN {"c1"} ELSE ChatIDs
UserTexts == {"Hello"}
Registered == {"shell"}

NoID == ""
NIL == [nil |-> TRUE]

----------------------------------------------------------------------------
(* llm.Message and llm.ToolCall *)

Message(role, content, toolCalls, toolCallID) ==
    [Role |-> role, Content |-> content, ToolCalls |-> toolCalls,
     ToolCallID |-> toolCallID]

TextMessage(role, content) == Message(role, content, <<>>, NoID)

ToolCall(id, name) ==
    [ID |-> id, Name |-> name,
     Arguments |-> IF name = "shell" THEN "{\"command\":\"ls\"}" ELSE "{}"]

CallID(n) == "t" \o ToString(n)

(* The last n elements of s (all of s when it is shorter) *)
LastN(s, n) == IF Len(s) <= n THEN s ELSE SubSeq(s, Len(s) - n + 1, Len(s))

----------------------------------------------------------------------------
(* Conversation store *)

(* A variant of SaveMessage that loses the row *)
SaveMessage_Lost(st, chat, msg) == st

SaveMessage(st, chat, msg) == [st EXCEPT ![chat] = Append(@, msg)]

GetHistory(st, chat, limit) == LastN(st[chat], limit)

SaveSummary(sm, chat, summary) == [sm EXCEPT ![chat] = summary]

GetSummary(sm, chat) == sm[chat]

----------------------------------------------------------------------------
(* Context manager *)

RECURSIVE SumArgs(_)
SumArgs(tcs) ==
    IF tcs = <<>> THEN 0
    ELSE (Len(Head(tcs).Arguments) \div 4) + SumArgs(Tail(tcs))

RECURSIVE estimateTokens(_)
estimateTokens(ms) ==
    IF ms = <<>> THEN 0
    ELSE (Len(Head(ms).Content) \div 4) + SumArgs(Head(ms).ToolCalls)
         + estimateTokens(Tail(ms))

shouldSummarize(ms) == estimateTokens(ms) > SummarizeAt

(* What the summarizer's provider call may return: an error, or a response *)
(* whose content is the summary (possibly empty).                          *)
SummarizerOutcomes == {[err |-> TRUE, Content |-> ""],
                       [err |-> FALSE, Content |-> ""],
                       [err |-> FALSE, Content |-> "S"]}

(* A variant of summarize that keeps one message more than RecentKeep *)
summarize_KeepsOneMore(ms, o) ==
    IF Len(ms) <= RecentKeep
    THEN [summary |-> "", recent |-> ms, called |-> FALSE]
    ELSE [summary |-> IF o.err THEN "" ELSE o.Content,
          recent |-> SubSeq(ms, Len(ms) - RecentKeep, Len(ms)),
          called |-> TRUE]

(* contextManager.summarize: <<summary, recent, called>>, where called     *)
(* tells whether the provider was invoked; o is the provider's outcome.    *)
summarize(ms, o) ==
    IF Len(ms) <= RecentKeep
    THEN [summary |-> "", recent |-> ms, called |-> FALSE]
    ELSE LET cutoff == Len(ms) - RecentKeep
             recent == SubSeq(ms, cutoff + 1, Len(ms))
         IN  IF o.err
             THEN [summary |-> "", recent |-> recent, called |-> TRUE]
             ELSE [summary |-> o.Content, recent |-> recent, called |-> TRUE]

----------------------------------------------------------------------------
(* Agent.processMessage *)

SummaryPrefix == "[Previous conversation summary]: "
SummaryAck == "I understand the previous context. How can I help?"
NewSummaryPrefix == "[Conversation summary]: "
NewSummaryAck == "I understand the context. Continuing..."
TruncationPrefix ==
    "I've reached the maximum number of tool calls for this request. Here's what I have so far: "
LLMErrorPrefix == "LLM error: "

(* A variant of BuildMessages that also picks the new user message up    *)
(* from the store, so that it appears twice                               *)
BuildMessages_UserTwice(summary, history, text) ==
    (IF summary # ""
     THEN <<TextMessage("user", SummaryPrefix \o summary),
            TextMessage("assistant", SummaryAck)>>
     ELSE <<>>)
    \o history \o <<TextMessage("user", text), TextMessage("user", text)>>

(* Lines 14-46: load, build the working list, save the user message *)
BuildMessages(summary, history, text) ==
    (IF summary # ""
     THEN <<TextMessage("user", SummaryPrefix \o summary),
            TextMessage("assistant", SummaryAck)>>
     ELSE <<>>)
    \o history \o <<TextMessage("user", text)>>

StartTurn ==
    /\ pc \in {"idle", "done"}
    /\ turns < MaxTurns
    /\ \E c \in TurnChats(turns), t \in UserTexts :
         /\ chatID' = c
         /\ userText' = t
         /\ messages' = BuildMessages(GetSummary(summaries, c),
                                      GetHistory(store, c, HistoryLimit), t)
         /\ store' = SaveMessage(store, c, TextMessage("user", t))
         /\ store0' = store[c]
    /\ toolCallCount' = 0
    /\ pc' = "loop"
    /\ turns' = turns + 1
    /\ req' = <<>>
    /\ resp' = [Content |-> "", ToolCalls |-> <<>>]
    /\ tcIdx' = 1
    /\ result' = [kind |-> "none", text |-> ""]
    /\ provCalls' = 0
    /\ sumCalls' = 0
    /\ sumOut' = NIL
    /\ prevMsgs' = <<>>
    /\ execLog' = <<>>
    /\ nextID' = 1
    /\ UNCHANGED <<summaries, notAgentVars>>

(* Lines 47-69: the head of the loop: summarize if needed, build the request *)
AfterSummarize(ms, s) ==
    IF s.summary # ""
    THEN <<TextMessage("user", NewSummaryPrefix \o s.summary),
           TextMessage("assistant", NewSummaryAck)>> \o s.recent
    ELSE ms

Think ==
    /\ pc = "loop"
    /\ \/ /\ ~shouldSummarize(messages)
          /\ req' = messages
          /\ sumOut' = NIL
          /\ UNCHANGED <<messages, summaries, sumCalls>>
       \/ /\ shouldSummarize(messages)
          /\ \E o \in SummarizerOutcomes :
               LET s == summarize(messages, o) IN
               /\ (~s.called) => o = [err |-> FALSE, Content |-> ""]
               /\ messages' = AfterSummarize(messages, s)
               /\ req' = messages'
               /\ summaries' = IF s.summary # ""
                               THEN SaveSummary(summaries, chatID, s.summary)
                               ELSE summaries
               /\ sumCalls' = sumCalls + (IF s.called THEN 1 ELSE 0)
               /\ sumOut' = IF s.called THEN o ELSE NIL
    /\ prevMsgs' = messages
    /\ pc' = "chat"
    /\ provCalls' = provCalls + 1
    /\ UNCHANGED <<store, chatID, userText, toolCallCount, resp, tcIdx, result,
                   turns, execLog, nextID, store0, notAgentVars>>

(* What Provider.Chat may return to the main loop: an error, or a response *)
(* with content and an ordered list of tool calls (possibly empty).        *)
ProviderErrors == {"rate limit exceeded"}
FinalContents == {"Hi there!"}
(* Responses with tool calls: the content and the tool names of the calls *)
LegResponses == {[Content |-> "", Names |-> <<"shell">>],
                 [Content |-> "Let me check.", Names |-> <<"shell", "ghost">>]}

MintCalls(names, first) ==
    [i \in 1..Len(names) |-> ToolCall(CallID(first + i - 1), names[i])]

ReturnText(text) == [kind |-> "ok", text |-> text]
ReturnError(text) == [kind |-> "err", text |-> text]

(* Variants of the budget guard: off by one, and never firing *)
BudgetExceeded_OffByOne(count) == count >= MaxToolCalls
BudgetExceeded_Never(count) == FALSE

(* Line 86: the tool-call budget is exhausted *)
BudgetExceeded(count) == count > MaxToolCalls

(* Line 87 *)
TruncationMessage(content) == TruncationPrefix \o content

(* A variant of ChatError that also saves the error text as the assistant's *)
(* message                                                                  *)
ChatError_StoresMessage ==
    /\ pc = "chat"
    /\ sumOut' = NIL
    /\ prevMsgs' = <<>>
    /\ \E e \in ProviderErrors :
         /\ result' = [kind |-> "err", text |-> LLMErrorPrefix \o e]
         /\ store' = [store EXCEPT ![chatID] =
                         Append(@, TextMessage("assistant", LLMErrorPrefix \o e))]
    /\ resp' = NIL
    /\ pc' = "done"
    /\ UNCHANGED <<summaries, chatID, userText, messages, toolCallCount,
                   req, tcIdx, turns, provCalls, sumCalls, execLog,
                   nextID, store0, notAgentVars>>

(* Lines 71-74: Provider.Chat returned an error *)
ChatError ==
    /\ pc = "chat"
    /\ sumOut' = NIL
    /\ prevMsgs' = <<>>
    /\ \E e \in ProviderErrors : result' = ReturnError(LLMErrorPrefix \o e)
    /\ resp' = NIL
    /\ pc' = "done"
    /\ UNCHANGED <<store, summaries, chatID, userText, messages, toolCallCount,
                   req, tcIdx, turns, provCalls, sumCalls, execLog,
                   nextID, store0, notAgentVars>>

(* Lines 78-82: a response without tool calls is the final response *)
ChatFinal ==
    /\ pc = "chat"
    /\ sumOut' = NIL
    /\ prevMsgs' = <<>>
    /\ \E c \in FinalContents :
         /\ resp' = [Content |-> c, ToolCalls |-> <<>>]
         /\ store' = SaveMessage(store, chatID, TextMessage("assistant", c))
         /\ result' = ReturnText(c)
    /\ pc' = "done"
    /\ UNCHANGED <<summaries, chatID, userText, messages, toolCallCount, req,
                   tcIdx, turns, provCalls, sumCalls, execLog, nextID, store0,
                   notAgentVars>>

(* Lines 84-98: a response with tool calls: budget guard, then record the  *)
(* assistant message in the working list                                    *)
ChatToolCalls ==
    /\ pc = "chat"
    /\ sumOut' = NIL
    /\ prevMsgs' = <<>>
    /\ \E r \in LegResponses :
         LET c == r.Content
             tcs == MintCalls(r.Names, nextID)
             count == toolCallCount + Len(tcs)
         IN  /\ resp' = [Content |-> c, ToolCalls |-> tcs]
             /\ nextID' = nextID + Len(tcs)
             /\ toolCallCount' = count
             /\ IF BudgetExceeded(count)
                THEN /\ store' = SaveMessage(store, chatID,
                            TextMessage("assistant", TruncationMessage(c)))
                     /\ result' = ReturnText(TruncationMessage(c))
                     /\ pc' = "done"
                     /\ UNCHANGED <<messages, tcIdx>>
                ELSE /\ messages' = Append(messages,
                                           Message("assistant", c, tcs, NoID))
                     /\ tcIdx' = 1
                     /\ pc' = "tools"
                     /\ UNCHANGED <<store, result>>
    /\ UNCHANGED <<summaries, chatID, userText, req, turns, provCalls,
                   sumCalls, execLog, store0, notAgentVars>>

(* What Tool.Execute may return: a transport error, a result with IsError, *)
(* or a result with Output.                                                *)
ExecOutcomes == {[kind |-> "exec_error", err |-> "signal: killed", Error |-> "", Output |-> ""],
                 [kind |-> "is_error", err |-> "", Error |-> "command blocked", Output |-> ""],
                 [kind |-> "output", err |-> "", Error |-> "", Output |-> "a.txt"]}
NotFound == [kind |-> "not_found", err |-> "", Error |-> "", Output |-> ""]

(* A variant of ResultText that does not look at IsError *)
ResultText_IgnoresIsError(tc, o) ==
    IF o.kind = "not_found" THEN "Error: tool '" \o tc.Name \o "' not found"
    ELSE IF o.kind = "exec_error" THEN "Error executing tool: " \o o.err
    ELSE o.Output

(* Lines 104-117: the result text of one tool call; o is what the registry *)
(* lookup and Execute produced                                             *)
ResultText(tc, o) ==
    IF o.kind = "not_found" THEN "Error: tool '" \o tc.Name \o "' not found"
    ELSE IF o.kind = "exec_error" THEN "Error executing tool: " \o o.err
    ELSE IF o.kind = "is_error" THEN "Error: " \o o.Error
    ELSE o.Output

(* Lines 122-127 *)
ToolMessage(tc, text) == Message("tool", text, <<>>, tc.ID)

(* A variant of the range loop that visits the calls last to first *)
NextCall_Reversed(tcs, i) == tcs[Len(tcs) - i + 1]

(* Line 101: the call the range loop visits at position i *)
NextCall(tcs, i) == tcs[i]

(* Lines 101-128: one iteration of the loop over resp.ToolCalls *)
ExecTool ==
    /\ pc = "tools"
    /\ LET tc == NextCall(resp.ToolCalls, tcIdx) IN
       \E o \in (IF tc.Name \in Registered THEN ExecOutcomes ELSE {NotFound}) :
         /\ messages' = Append(messages, ToolMessage(tc, ResultText(tc, o)))
         /\ execLog' = Append(execLog, [ID |-> tc.ID, Name |-> tc.Name, kind |-> o.kind])
    /\ tcIdx' = tcIdx + 1
    /\ pc' = IF tcIdx = Len(resp.ToolCalls) THEN "loop" ELSE "tools"
    /\ UNCHANGED <<store, summaries, chatID, userText, toolCallCount, req, resp,
                   result, turns, provCalls, sumCalls, sumOut, prevMsgs, nextID, store0,
                   notAgentVars>>

----------------------------------------------------------------------------
(* Initial state and next-state relation of the agent loop *)

(* security.Sanitizer as NewSanitizer leaves it, before the configuration  *)
(* is applied: no mappings, no counters                                    *)
defaultFilters == <<"EMAIL", "IP">>

EmptyMap == [p \in {} |-> ""]

ZeroCounter == [f \in {"EMAIL", "IP"} |-> 0]

SanIdle ==
    /\ sEnabled = FALSE
    /\ sFilters = <<>>
    /\ mappings = EmptyMap
    /\ counter = ZeroCounter
    /\ guiPc = "idle"
    /\ guiText = <<>>
    /\ guiSan = <<>>
    /\ guiResp = <<>>
    /\ guiOut = <<>>
    /\ provSeen = NIL
    /\ chanOut = NIL
    /\ clearedSince = FALSE
    /\ issued = {}
    /\ firsts = <<>>

(* memory.SQLiteMemory after migrate() on a new database file *)
MemIdle ==
    /\ rows = {}
    /\ nextRowID = 1
    /\ sumRows = {}
    /\ memHist = NIL
    /\ memSum = NIL
    /\ saved = [c \in ChatIDs |-> <<>>]
    /\ lastSummary = [c \in ChatIDs |-> [saved |-> FALSE, text |-> ""]]

FbIdle ==
    /\ providers = <<>>
    /\ fbPc = "used"
    /\ fbIdx = 1
    /\ lastErr = NIL
    /\ invoked = <<>>
    /\ fbRet = [resp |-> NIL, err |-> NIL]
    /\ caller = "none"

AgentIdle ==
    /\ store = [c \in ChatIDs |-> <<>>]
    /\ summaries = [c \in ChatIDs |-> ""]
    /\ pc = "idle"
    /\ chatID = "c1"
    /\ userText = ""
    /\ messages = <<>>
    /\ toolCallCount = 0
    /\ req = <<>>
    /\ resp = [Content |-> "", ToolCalls |-> <<>>]
    /\ tcIdx = 1
    /\ result = [kind |-> "none", text |-> ""]
    /\ turns = 0
    /\ provCalls = 0
    /\ sumCalls = 0
    /\ sumOut = NIL
    /\ prevMsgs = <<>>
    /\ execLog = <<>>
    /\ nextID = 1
    /\ store0 = <<>>

(* The tools, the secret store and the configuration before any call *)
ShIdle ==
    /\ shSandbox = TRUE
    /\ shCmd = <<>>
    /\ shRes = NIL
    /\ shSpawned = FALSE

FsIdle ==
    /\ fsNodes = <<>>
    /\ fsCall = NIL
    /\ fsRes = NIL
    /\ fsTouched = {}
    /\ fsParentLoc = NIL

BrIdle ==
    /\ brAllowed = <<>>
    /\ brDenied = <<>>
    /\ brPages = {}
    /\ brNextID = 0
    /\ brMu = "none"
    /\ brPc = [g \in {"g1", "g2"} |-> "idle"]
    /\ brReq = [g \in {"g1", "g2"} |-> NIL]
    /\ brLast = NIL
    /\ brMinted = {}
    /\ brBrowser = FALSE
    /\ brLeaked = 0

SkIdle ==
    /\ skSandbox = TRUE
    /\ skCmd = <<>>
    /\ skRes = NIL
    /\ skSpawned = <<>>

ClsIdle ==
    /\ clsMsg = <<>>
    /\ clsOpenAI = NIL
    /\ clsAnthropic = NIL

KsIdle ==
    /\ ksHasKey = FALSE
    /\ ksRing = [n \in {"llm_api_key", "telegram_token"} |-> [present |-> FALSE, value |-> ""]]
    /\ ksVault = [exists |-> FALSE, entries |-> [n \in {"llm_api_key", "telegram_token"} |-> [present |-> FALSE, value |-> ""]]]
    /\ ksLive = [n \in {"llm_api_key", "telegram_token"} |-> [present |-> FALSE, value |-> ""]]
    /\ ksLast = NIL
    /\ ksGone = {}

AppIdle ==
    /\ appKeyStore = TRUE
    /\ appCfg = [apiKey |-> "", tg |-> FALSE, token |-> ""]
    /\ appDisk = [apiKey |-> "", tg |-> FALSE, token |-> ""]
    /\ appRing = [n \in {"llm_api_key", "telegram_token"} |-> [present |-> FALSE, value |-> ""]]
    /\ appPc = "boot"
    /\ appLast = NIL

TnIdle ==
    /\ tnTurns = <<>>
    /\ tnStore = <<>>
    /\ tnSending = FALSE

CxIdle ==
    /\ cxPc = "idle"
    /\ cxCancelled = FALSE
    /\ cxCalls = <<>>
    /\ cxCount = 0
    /\ cxRan = {}
    /\ cxResults = <<>>
    /\ cxOut = NIL

HmIdle ==
    /\ hmPc = "idle"
    /\ hmMsg = NIL
    /\ hmEvents = <<>>
    /\ hmSends = <<>>
    /\ hmLegs = 0
    /\ hmErr = FALSE

RgIdle ==
    /\ rgTools = <<>>
    /\ rgLast = <<>>
    /\ rgRet = NIL

EbIdle ==
    /\ ebHandlers = <<>>
    /\ ebSubs = <<>>
    /\ ebPc = "idle"
    /\ ebEvent = NIL
    /\ ebQueue = <<>>
    /\ ebAtCall = <<>>
    /\ ebLog = <<>>

TgIdle ==
    /\ tgAllowed = {}
    /\ tgHandler = FALSE
    /\ tgLog = <<>>
    /\ tgLast = NIL

LcIdle ==
    /\ lcCfg = [provider |-> "openai", baseURL |-> <<>>]
    /\ lcDisk = [provider |-> "openai", baseURL |-> <<>>]
    /\ lcAgent = "none"
    /\ lcLast = NIL

CoreIdle == AgentIdle /\ FbIdle /\ SanIdle /\ MemIdle

LateIdle ==
    /\ ShIdle
    /\ FsIdle
    /\ BrIdle
    /\ SkIdle
    /\ ClsIdle
    /\ KsIdle
    /\ AppIdle
    /\ TnIdle
    /\ CxIdle
    /\ HmIdle
    /\ RgIdle
    /\ EbIdle
    /\ TgIdle
    /\ LcIdle

notShIdle ==
    /\ CoreIdle
    /\ FsIdle
    /\ BrIdle
    /\ SkIdle
    /\ ClsIdle
    /\ KsIdle
    /\ AppIdle
    /\ TnIdle
    /\ CxIdle
    /\ HmIdle
    /\ RgIdle
    /\ EbIdle
    /\ TgIdle
    /\ LcIdle

notFsIdle ==
    /\ CoreIdle
    /\ ShIdle
    /\ BrIdle
    /\ SkIdle
    /\ ClsIdle
    /\ KsIdle
    /\ AppIdle
    /\ TnIdle
    /\ CxIdle
    /\ HmIdle
    /\ RgIdle
    /\ EbIdle
    /\ TgIdle
    /\ LcIdle

notBrIdle ==
    /\ CoreIdle
    /\ ShIdle
    /\ FsIdle
    /\ SkIdle
    /\ ClsIdle
    /\ KsIdle
    /\ AppIdle
    /\ TnIdle
    /\ CxIdle
    /\ HmIdle
    /\ RgIdle
    /\ EbIdle
    /\ TgIdle
    /\ LcIdle

notSkIdle ==
    /\ CoreIdle
    /\ ShIdle
    /\ FsIdle
    /\ BrIdle
    /\ ClsIdle
    /\ KsIdle
    /\ AppIdle
    /\ TnIdle
    /\ CxIdle
    /\ HmIdle
    /\ RgIdle
    /\ EbIdle
    /\ TgIdle
    /\ LcIdle

notClsIdle ==
    /\ CoreIdle
    /\ ShIdle
    /\ FsIdle
    /\ BrIdle
    /\ SkIdle
    /\ KsIdle
    /\ AppIdle
    /\ TnIdle
    /\ CxIdle
    /\ HmIdle
    /\ RgIdle
    /\ EbIdle
    /\ TgIdle
    /\ LcIdle

notKsIdle ==
    /\ CoreIdle
    /\ ShIdle
    /\ FsIdle
    /\ BrIdle
    /\ SkIdle
    /\ ClsIdle
    /\ AppIdle
    /\ TnIdle
    /\ CxIdle
    /\ HmIdle
    /\ RgIdle
    /\ EbIdle
    /\ TgIdle
    /\ LcIdle

notAppIdle ==
    /\ CoreIdle
    /\ ShIdle
    /\ FsIdle
    /\ BrIdle
    /\ SkIdle
    /\ ClsIdle
    /\ KsIdle
    /\ TnIdle
    /\ CxIdle
    /\ HmIdle
    /\ RgIdle
    /\ EbIdle
    /\ TgIdle
    /\ LcIdle

notTnIdle ==
    /\ CoreIdle
    /\ ShIdle
    /\ FsIdle
    /\ BrIdle
    /\ SkIdle
    /\ ClsIdle
    /\ KsIdle
    /\ AppIdle
    /\ CxIdle
    /\ HmIdle
    /\ RgIdle
    /\ EbIdle
    /\ TgIdle
    /\ LcIdle

notCxIdle ==
    /\ CoreIdle
    /\ ShIdle
    /\ FsIdle
    /\ BrIdle
    /\ SkIdle
    /\ ClsIdle
    /\ KsIdle
    /\ AppIdle
    /\ TnIdle
    /\ HmIdle
    /\ RgIdle
    /\ EbIdle
    /\ TgIdle
    /\ LcIdle

notHmIdle ==
    /\ CoreIdle
    /\ ShIdle
    /\ FsIdle
    /\ BrIdle
    /\ SkIdle
    /\ ClsIdle
    /\ KsIdle
    /\ AppIdle
    /\ TnIdle
    /\ CxIdle
    /\ RgIdle
    /\ EbIdle
    /\ TgIdle
    /\ LcIdle

notRgIdle ==
    /\ CoreIdle
    /\ ShIdle
    /\ FsIdle
    /\ BrIdle
    /\ SkIdle
    /\ ClsIdle
    /\ KsIdle
    /\ AppIdle
    /\ TnIdle
    /\ CxIdle
    /\ HmIdle
    /\ EbIdle
    /\ TgIdle
    /\ LcIdle

notEbIdle ==
    /\ CoreIdle
    /\ ShIdle
    /\ FsIdle
    /\ BrIdle
    /\ SkIdle
    /\ ClsIdle
    /\ KsIdle
    /\ AppIdle
    /\ TnIdle
    /\ CxIdle
    /\ HmIdle
    /\ RgIdle
    /\ TgIdle
    /\ LcIdle

notTgIdle ==
    /\ CoreIdle
    /\ ShIdle
    /\ FsIdle
    /\ BrIdle
    /\ SkIdle
    /\ ClsIdle
    /\ KsIdle
    /\ AppIdle
    /\ TnIdle
    /\ CxIdle
    /\ HmIdle
    /\ RgIdle
    /\ EbIdle
    /\ LcIdle

notLcIdle ==
    /\ CoreIdle
    /\ ShIdle
    /\ FsIdle
    /\ BrIdle
    /\ SkIdle
    /\ ClsIdle
    /\ KsIdle
    /\ AppIdle
    /\ TnIdle
    /\ CxIdle
    /\ HmIdle
    /\ RgIdle
    /\ EbIdle
    /\ TgIdle

Init == AgentIdle /\ FbIdle /\ SanIdle /\ MemIdle /\ LateIdle

Next == StartTurn \/ Think \/ ChatError \/ ChatFinal \/ ChatToolCalls \/ ExecTool

Spec == Init /\ [][Next]_vars

----------------------------------------------------------------------------
(* FallbackProvider.Chat *)

ErrorTypes == {"ErrorUnknown", "ErrorRateLimit", "ErrorAuth", "ErrorInvalidInput",
               "ErrorServerError", "ErrorTimeout", "ErrorNetwork"}

(* What one provider of the chain does with the request: it answers, fails *)
(* with an LLMError of some type, or fails with an error that is no LLMError *)
Behaviours == {"ok", "plain_error"} \cup ErrorTypes

(* p.Chat(ctx, req) of the provider at position i *)
ProviderChat(ps, i) ==
    IF ps[i] = "ok"
    THEN [resp |-> [from |-> i], err |-> NIL]
    ELSE [resp |-> NIL,
          err |-> [from |-> i, llm |-> ps[i] # "plain_error", Type |-> ps[i]]]

(* Variants of isRetryable: Auth errors fall through to the next provider; *)
(* rate limits end the chain                                              *)
isRetryable_AuthRetried(err) ==
    IF ~err.llm THEN TRUE
    ELSE IF err.Type \in {"ErrorInvalidInput"} THEN FALSE
    ELSE TRUE
isRetryable_RateLimitFatal(err) ==
    IF ~err.llm THEN TRUE
    ELSE IF err.Type \in {"ErrorAuth", "ErrorInvalidInput", "ErrorRateLimit"} THEN FALSE
    ELSE TRUE

isRetryable(err) ==
    IF ~err.llm THEN TRUE
    ELSE IF err.Type \in {"ErrorAuth", "ErrorInvalidInput"} THEN FALSE
    ELSE TRUE

(* Lines 35-45: one iteration of the loop over f.providers *)
FbCall ==
    /\ fbPc = "call"
    /\ fbIdx <= Len(providers)
    /\ LET r == ProviderChat(providers, fbIdx) IN
       /\ invoked' = Append(invoked, fbIdx)
       /\ IF r.err = NIL
          THEN /\ fbRet' = [resp |-> r.resp, err |-> NIL]
               /\ fbPc' = "returned"
               /\ UNCHANGED <<lastErr, fbIdx>>
          ELSE /\ lastErr' = r.err
               /\ IF ~isRetryable(r.err)
                  THEN /\ fbRet' = [resp |-> NIL, err |-> r.err]
                       /\ fbPc' = "returned"
                       /\ UNCHANGED fbIdx
                  ELSE /\ fbIdx' = fbIdx + 1
                       /\ UNCHANGED <<fbRet, fbPc>>
    /\ UNCHANGED <<providers, caller, notFbVars>>

(* Line 46: the loop has run out of providers *)
FbExhausted ==
    /\ fbPc = "call"
    /\ fbIdx > Len(providers)
    /\ fbRet' = [resp |-> NIL, err |-> lastErr]
    /\ fbPc' = "returned"
    /\ UNCHANGED <<providers, fbIdx, lastErr, invoked, caller, notFbVars>>

(* The caller, Agent.processMessage lines 71-82: it returns on a non-nil   *)
(* error and reads resp.ToolCalls otherwise                                *)
CallerUse ==
    /\ fbPc = "returned"
    /\ caller' = IF fbRet.err # NIL THEN "llm_error"
                 ELSE IF fbRet.resp = NIL THEN "nil_dereference"
                 ELSE "response"
    /\ fbPc' = "used"
    /\ UNCHANGED <<providers, fbIdx, lastErr, invoked, fbRet, notFbVars>>

ProviderLists ==
    UNION {[1..n -> Behaviours] : n \in 0..MaxProviders}

FbInit ==
    /\ AgentIdle
    /\ SanIdle
    /\ MemIdle
    /\ LateIdle
    /\ providers \in ProviderLists
    /\ fbPc = "call"
    /\ fbIdx = 1
    /\ lastErr = NIL
    /\ invoked = <<>>
    /\ fbRet = [resp |-> NIL, err |-> NIL]
    /\ caller = "none"

FbNext == FbCall \/ FbExhausted \/ CallerUse

FallbackSpec == FbInit /\ [][FbNext]_vars

----------------------------------------------------------------------------
(* Properties of the agent loop, checked under Spec *)

Last(s) == s[Len(s)]

InTurn == pc \in {"loop", "chat", "tools"}

Returned == pc = "done"

TurnStep == Think \/ ChatError \/ ChatFinal \/ ChatToolCalls \/ ExecTool

C3_TurnEnds ==
    /\ provCalls <= MaxToolCalls + 1
    /\ Len(execLog) <= MaxToolCalls
    /\ tcIdx <= MaxToolCalls + 1
    /\ InTurn => ENABLED TurnStep
    /\ Returned =>
          \/ /\ result.kind = "err"
             /\ \E e \in ProviderErrors : result.text = LLMErrorPrefix \o e
          \/ /\ result.kind = "ok"
             /\ resp.ToolCalls = <<>>
             /\ result.text = resp.Content
          \/ /\ result.kind = "ok"
             /\ resp.ToolCalls # <<>>
             /\ toolCallCount > MaxToolCalls
             /\ result.text = TruncationPrefix \o resp.Content

(* A turn that used the whole budget and then ended with a final response  *)
C3_Witness ==
    /\ Returned /\ result.kind = "ok"
    /\ resp.ToolCalls = <<>>
    /\ provCalls = MaxToolCalls + 1
    /\ Len(execLog) = MaxToolCalls

(* C4: while and after the calls of a response are executed, the working   *)
(* list ends with the assistant message of that response followed by one    *)
(* tool message per executed call, in the provider's order and with the     *)
(* call's id; the executions happened in that order; and a provider         *)
(* request is outstanding only when every call has its tool message.        *)
C4_ToolCallsInOrder ==
    /\ (pc = "tools" \/ (pc = "loop" /\ provCalls > 0)) =>
          LET n == tcIdx - 1
              base == Len(messages) - n
          IN  /\ base >= 1
              /\ n <= Len(resp.ToolCalls)
              /\ messages[base] = Message("assistant", resp.Content, resp.ToolCalls, NoID)
              /\ \A j \in 1..n :
                    /\ messages[base + j].Role = "tool"
                    /\ messages[base + j].ToolCallID = resp.ToolCalls[j].ID
                    /\ execLog[Len(execLog) - n + j].ID = resp.ToolCalls[j].ID
              /\ pc = "loop" => n = Len(resp.ToolCalls)
    /\ (pc = "chat" /\ provCalls > 1) =>
          /\ tcIdx = Len(resp.ToolCalls) + 1
          /\ Len(execLog) = toolCallCount

(* Both calls of a two-call response have been executed                    *)
C4_Witness ==
    /\ pc = "loop"
    /\ Len(resp.ToolCalls) = 2
    /\ tcIdx = 3
    /\ Last(messages).ToolCallID = resp.ToolCalls[2].ID

(* C5: in every chat request of a turn, each role=tool message is preceded *)
(* in the request's message list by a role=assistant message whose          *)
(* tool_calls contains the same id.                                         *)
Paired(ms) ==
    \A i \in 1..Len(ms) :
        ms[i].Role = "tool" =>
            \E j \in 1..(i - 1) :
                /\ ms[j].Role = "assistant"
                /\ \E k \in 1..Len(ms[j].ToolCalls) :
                      ms[j].ToolCalls[k].ID = ms[i].ToolCallID

C5_ToolMessagesPaired == Paired(req)

(* C6: after each tool call the working list ends with the tool message of *)
(* that call, whose content is fixed by what the lookup and Execute         *)
(* produced; the turn has not returned, and its next step (the next call    *)
(* or the next provider request) is possible. A turn never returns an       *)
(* error that is not the provider's.                                        *)
C6_ToolFailureContinues ==
    /\ (tcIdx > 1 /\ pc \in {"tools", "loop"}) =>
          LET e == Last(execLog)
              m == Last(messages)
          IN  /\ m.Role = "tool"
              /\ m.ToolCallID = e.ID
              /\ m.ToolCalls = <<>>
              /\ e.kind = "not_found" <=> e.Name \notin Registered
              /\ e.kind = "not_found" =>
                    m.Content = "Error: tool '" \o e.Name \o "' not found"
              /\ e.kind = "exec_error" =>
                    m.Content = "Error executing tool: signal: killed"
              /\ e.kind = "is_error" => m.Content = "Error: command blocked"
              /\ e.kind = "output" => m.Content = "a.txt"
              /\ result.kind = "none"
              /\ pc = "tools" => ENABLED ExecTool
              /\ pc = "loop" => ENABLED Think
    /\ result.kind = "err" =>
          \E e \in ProviderErrors : result.text = LLMErrorPrefix \o e

(* A turn in which a lookup failed, Execute failed and a result had        *)
(* IsError, and which then returned the provider's final response           *)
C6_Witness ==
    /\ Returned /\ result.kind = "ok"
    /\ resp.ToolCalls = <<>>
    /\ {execLog[i].kind : i \in 1..Len(execLog)} =
          {"not_found", "exec_error", "is_error"}

(* C7: when Provider.Chat returns an error the turn has returned an error  *)
(* with the prefix "LLM error: ", and its chat's store holds what it held   *)
(* when the turn began plus the user message, and no assistant message of   *)
(* this turn.                                                               *)
C7_ProviderErrorAborts ==
    resp = NIL =>
       /\ Returned
       /\ result.kind = "err"
       /\ result.text = "LLM error: rate limit exceeded"
       /\ store[chatID] = Append(store0, TextMessage("user", userText))

(* The provider failed after a tool-call leg                               *)
C7_Witness ==
    /\ resp = NIL
    /\ provCalls >= 2
    /\ Len(execLog) >= 1
    /\ store0 # <<>>

----------------------------------------------------------------------------
(* Properties of the fallback chain, checked under FallbackSpec *)

NonRetryable == {"ErrorAuth", "ErrorInvalidInput"}
Retryable == {"ErrorRateLimit", "ErrorServerError", "ErrorTimeout",
              "ErrorNetwork", "ErrorUnknown", "plain_error"}

FbReturned == fbPc \in {"returned", "used"}

(* C8: a provider that fails with an Auth or InvalidInput error is the last *)
(* one invoked, and Chat has returned that provider's error.                *)
C8_NonRetryableStops ==
    \A i \in 1..Len(invoked) :
        providers[invoked[i]] \in NonRetryable =>
            /\ i = Len(invoked)
            /\ FbReturned
            /\ fbRet.resp = NIL
            /\ fbRet.err = [from |-> invoked[i], llm |-> TRUE,
                            Type |-> providers[invoked[i]]]

(* The second of three providers failed with Auth after the first failed   *)
(* with a retryable error; the third could have answered                    *)
C8_Witness ==
    /\ fbPc = "used"
    /\ providers = <<"ErrorTimeout", "ErrorAuth", "ok">>
    /\ invoked = <<1, 2>>

(* C9: the providers are invoked in list order, each at most once; every   *)
(* provider before the last invoked one failed with a retryable error; the  *)
(* chain stops before the end of the list only on a success or a            *)
(* non-retryable error; a success is returned as it is; and when all        *)
(* providers of a non-empty list failed with retryable errors the error of  *)
(* the last provider is returned.                                           *)
C9_InOrderFirstSuccess ==
    LET k == Len(invoked) IN
    /\ \A i \in 1..k : invoked[i] = i
    /\ k <= Len(providers)
    /\ \A i \in 1..(k - 1) : providers[i] \in Retryable
    /\ fbPc = "call" => (k = fbIdx - 1 /\ \A i \in 1..k : providers[i] \in Retryable)
    /\ FbReturned =>
          /\ k < Len(providers) => providers[k] \notin Retryable
          /\ (k >= 1 /\ providers[k] = "ok") =>
                fbRet = [resp |-> [from |-> k], err |-> NIL]
          /\ (k >= 1 /\ providers[k] \in Retryable) =>
                /\ k = Len(providers)
                /\ fbRet.resp = NIL
                /\ fbRet.err = [from |-> k, llm |-> providers[k] # "plain_error",
                                Type |-> providers[k]]

(* Three providers that all failed with retryable errors                   *)
C9_Witness ==
    /\ fbPc = "used"
    /\ providers = <<"ErrorRateLimit", "plain_error", "ErrorUnknown">>
    /\ invoked = <<1, 2, 3>>
    /\ fbRet.err.from = 3

(* C10: Chat returns either a response and no error or an error and no     *)
(* response, and the caller never reads a missing response.                 *)
C10_ResponseOrError ==
    /\ FbReturned =>
          \/ (fbRet.resp # NIL /\ fbRet.err = NIL)
          \/ (fbRet.resp = NIL /\ fbRet.err # NIL)
    /\ caller # "nil_dereference"

----------------------------------------------------------------------------
(* Context assembly and summarization.  While pc = "chat", prevMsgs is the *)
(* working list as it stood at the head of the loop iteration and sumOut   *)
(* is what the summarizer's provider call returned (NIL: no call).         *)

FirstRequest == pc = "chat" /\ provCalls = 1

SummaryPair(summary) ==
    IF summary # ""
    THEN <<TextMessage("user", "[Previous conversation summary]: " \o summary),
           TextMessage("assistant",
                       "I understand the previous context. How can I help?")>>
    ELSE <<>>

SummarizerSucceeded ==
    /\ pc = "chat"
    /\ sumOut # NIL
    /\ ~sumOut.err
    /\ sumOut.Content # ""

C12_ShortListCase ==
    /\ pc = "chat"
    /\ shouldSummarize(prevMsgs)
    /\ Len(prevMsgs) = 4

(* C13: when the summarizer's provider call fails, the turn goes on, the   *)
(* stored summary is unchanged and the next provider request is built from *)
(* the trailing 4 messages only.                                           *)
C13_FailureTruncates ==
    [][(pc = "loop" /\ pc' = "chat" /\ sumOut' # NIL /\ sumOut'.err) =>
          /\ summaries' = summaries
          /\ req' = LastN(messages, 4)]_vars

(* The summarizer failed on a list of more than four messages              *)
C13_SummarizerFailed ==
    /\ pc = "chat"
    /\ sumOut # NIL
    /\ sumOut.err
    /\ Len(prevMsgs) > 4

----------------------------------------------------------------------------
(* security.Sanitizer.  A text is a sequence of tokens; a filter's pattern *)
(* matches whole tokens.                                                   *)

(* maxPIIMappings is 1000 in the program; the model scales it down *)
maxPIIMappings == 2
MaxTextLen == 2

Tokens == {"a@x.io", "b@x.io", "10.0.0.1", "[EMAIL_1]"}

Texts == UNION {[1..n -> Tokens] : n \in 0..MaxTextLen}

(* The patterns of defaultFilters (the email and the ip filter are         *)
(* modelled); a placeholder matches no pattern.                            *)
Matches(tok, f) ==
    \/ f = "EMAIL" /\ tok \in {"a@x.io", "b@x.io"}
    \/ f = "IP" /\ tok \in {"10.0.0.1"}

(* config.PIIFilterConfig: Enabled and the per-filter flags *)
PIIConfigs ==
    {[Enabled |-> FALSE, Flags |-> {"EMAIL", "IP"}],
     [Enabled |-> TRUE, Flags |-> {}],
     [Enabled |-> TRUE, Flags |-> {"EMAIL"}],
     [Enabled |-> TRUE, Flags |-> {"EMAIL", "IP"}]}

RECURSIVE SelectFilters(_, _)
SelectFilters(fs, flags) ==
    IF fs = <<>> THEN <<>>
    ELSE (IF Head(fs) \in flags THEN <<Head(fs)>> ELSE <<>>)
         \o SelectFilters(Tail(fs), flags)

Placeholder(prefix, n) == "[" \o prefix \o "_" \o ToString(n) \o "]"

(* A variant of ReplaceMatch that never reuses an existing placeholder *)
ReplaceMatch_NoReuse(st, f, match) ==
    LET n == st.c[f] + 1
        p == Placeholder(f, n)
    IN  [tok |-> p, m |-> (p :> match) @@ st.m, c |-> [st.c EXCEPT ![f] = n],
         new |-> <<[lit |-> match, ph |-> p, prefix |-> f]>>]

(* The function passed to ReplaceAllStringFunc (lines 86-97) *)
ReplaceMatch(st, f, match) ==
    IF \E p \in DOMAIN st.m : st.m[p] = match
    THEN [tok |-> CHOOSE p \in DOMAIN st.m : st.m[p] = match,
          m |-> st.m, c |-> st.c, new |-> <<>>]
    ELSE LET n == st.c[f] + 1
             p == Placeholder(f, n)
         IN  [tok |-> p, m |-> (p :> match) @@ st.m,
              c |-> [st.c EXCEPT ![f] = n],
              new |-> <<[lit |-> match, ph |-> p, prefix |-> f]>>]

(* f.pattern.ReplaceAllStringFunc(result, ...) for one filter f: the       *)
(* matches are replaced from left to right; st = [out, m, c, new]          *)
RECURSIVE ReplaceAll(_, _, _)
ReplaceAll(toks, f, st) ==
    IF toks = <<>> THEN st
    ELSE IF Matches(Head(toks), f)
         THEN LET r == ReplaceMatch(st, f, Head(toks))
              IN  ReplaceAll(Tail(toks), f,
                             [out |-> Append(st.out, r.tok), m |-> r.m,
                              c |-> r.c, new |-> st.new \o r.new])
         ELSE ReplaceAll(Tail(toks), f,
                         [st EXCEPT !.out = Append(@, Head(toks))])

(* for _, f := range s.filters (lines 85-98) *)
RECURSIVE ApplyFilters(_, _)
ApplyFilters(fs, st) ==
    IF fs = <<>> THEN st
    ELSE ApplyFilters(Tail(fs),
                      ReplaceAll(st.out, Head(fs), [st EXCEPT !.out = <<>>]))

(* Line 79: the eviction test *)
Evict(m) == Cardinality(DOMAIN m) >= maxPIIMappings

(* Sanitizer.Sanitize: [out, m, c, new, cleared] *)
Sanitize(text, enabled, filters, m, c) ==
    IF ~enabled \/ Len(filters) = 0
    THEN [out |-> text, m |-> m, c |-> c, new |-> <<>>, cleared |-> FALSE]
    ELSE LET evict == Evict(m)
             m0 == IF evict THEN EmptyMap ELSE m
             c0 == IF evict THEN ZeroCounter ELSE c
             r == ApplyFilters(filters,
                               [out |-> text, m |-> m0, c |-> c0, new |-> <<>>])
         IN  [out |-> r.out, m |-> r.m, c |-> r.c, new |-> r.new,
              cleared |-> evict]

(* Sanitizer.Restore: every placeholder of the map is replaced by its      *)
(* original.  No original is itself a placeholder, so the order in which   *)
(* the map is ranged over does not change the result.                      *)
Restore(text, enabled, m) ==
    IF ~enabled THEN text
    ELSE [i \in 1..Len(text) |->
             IF text[i] \in DOMAIN m THEN m[text[i]] ELSE text[i]]

(* The pairs <<literal, placeholder>> a Sanitize call handed out *)
Handed(text, out) == {<<text[i], out[i]>> : i \in {j \in 1..Len(text) : text[j] # out[j]}}

(* What the provider may answer to a user text: the text itself, or a      *)
(* text of its own                                                         *)
Answers(text) == {text, <<"[EMAIL_1]">>}

ChannelTexts == {<<"a@x.io">>, <<"[EMAIL_1]", "10.0.0.1">>}

(* The texts of the calls that run beside the SendMessage under study *)
OtherTexts == {<<t>> : t \in Tokens}

(* App.SendMessage, line 751: sanitized := a.sanitizer.Sanitize(text) *)
GuiSanitize ==
    /\ guiPc = "idle"
    /\ \E text \in Texts :
         LET r == Sanitize(text, sEnabled, sFilters, mappings, counter) IN
         /\ guiText' = text
         /\ guiSan' = r.out
         /\ mappings' = r.m
         /\ counter' = r.c
         /\ issued' = (IF r.cleared THEN {} ELSE issued) \cup Handed(text, r.out)
         /\ firsts' = (IF r.cleared THEN <<>> ELSE firsts) \o r.new
    /\ guiPc' = "sanitized"
    /\ clearedSince' = FALSE
    /\ guiResp' = <<>>
    /\ guiOut' = <<>>
    /\ provSeen' = NIL
    /\ chanOut' = NIL
    /\ UNCHANGED <<sEnabled, sFilters, notSanVars>>

(* Lines 752-753: HandleDirectMessage hands the sanitized text to          *)
(* processMessage, whose provider answers                                   *)
GuiChat ==
    /\ guiPc = "sanitized"
    /\ provSeen' = [path |-> "gui", text |-> guiSan, sanitized |-> TRUE]
    /\ \E a \in Answers(guiSan) : guiResp' = a
    /\ guiPc' = "answered"
    /\ chanOut' = NIL
    /\ UNCHANGED <<sEnabled, sFilters, mappings, counter, guiText, guiSan,
                   guiOut, clearedSince, issued, firsts, notSanVars>>

(* Lines 753-755: processMessage failed; the error text is returned *)
GuiChatError ==
    /\ guiPc = "sanitized"
    /\ provSeen' = [path |-> "gui", text |-> guiSan, sanitized |-> TRUE]
    /\ guiOut' = <<"Error: LLM error: rate limit exceeded">>
    /\ guiPc' = "failed"
    /\ chanOut' = NIL
    /\ UNCHANGED <<sEnabled, sFilters, mappings, counter, guiText, guiSan,
                   guiResp, clearedSince, issued, firsts, notSanVars>>

(* Line 757: return a.sanitizer.Restore(response) *)
GuiRestore ==
    /\ guiPc = "answered"
    /\ guiOut' = Restore(guiResp, sEnabled, mappings)
    /\ guiPc' = "returned"
    /\ provSeen' = NIL
    /\ chanOut' = NIL
    /\ UNCHANGED <<sEnabled, sFilters, mappings, counter, guiText, guiSan,
                   guiResp, clearedSince, issued, firsts, notSanVars>>

(* SendMessage has returned: its locals are gone *)
GuiReturned ==
    /\ guiPc \in {"returned", "failed"}
    /\ guiPc' = "idle"
    /\ guiText' = <<>>
    /\ guiSan' = <<>>
    /\ guiResp' = <<>>
    /\ guiOut' = <<>>
    /\ clearedSince' = FALSE
    /\ provSeen' = NIL
    /\ chanOut' = NIL
    /\ UNCHANGED <<sEnabled, sFilters, mappings, counter, issued, firsts,
                   notSanVars>>

(* The Sanitize call of another SendMessage running at the same time *)
OtherSanitize ==
    /\ guiPc \in {"sanitized", "answered"}
    /\ \E text \in OtherTexts :
         LET r == Sanitize(text, sEnabled, sFilters, mappings, counter) IN
         /\ mappings' = r.m
         /\ counter' = r.c
         /\ clearedSince' = (clearedSince \/ r.cleared)
         /\ issued' = (IF r.cleared THEN {} ELSE issued) \cup Handed(text, r.out)
         /\ firsts' = (IF r.cleared THEN <<>> ELSE firsts) \o r.new
    /\ provSeen' = NIL
    /\ chanOut' = NIL
    /\ UNCHANGED <<sEnabled, sFilters, guiPc, guiText, guiSan, guiResp, guiOut,
                   notSanVars>>

(* Agent.handleMessage (agent.go 69-95): msg.Text goes to processMessage   *)
(* and the response, or the apology on an error, goes to the channel.  The *)
(* handler touches neither the sanitizer nor SendMessage's locals, so it   *)
(* commutes with every step of SendMessage and is taken between calls.     *)
ChannelMessage ==
    /\ guiPc = "idle"
    /\ \E text \in ChannelTexts :
         /\ provSeen' = [path |-> "channel", text |-> text, sanitized |-> FALSE]
         /\ \E a \in Answers(text) \cup
                     {<<"Sorry, I encountered an error processing your message. Please try again.">>} :
              chanOut' = [text |-> a, restored |-> FALSE]
    /\ UNCHANGED <<sEnabled, sFilters, mappings, counter, guiPc, guiText,
                   guiSan, guiResp, guiOut, clearedSince, issued, firsts,
                   notSanVars>>

(* App.startup: security.NewSanitizer(cfg.Security.PIIFiltering) *)
SanInit ==
    /\ AgentIdle
    /\ FbIdle
    /\ MemIdle
    /\ LateIdle
    /\ \E cfg \in PIIConfigs :
         /\ sEnabled = cfg.Enabled
         /\ sFilters = SelectFilters(defaultFilters, cfg.Flags)
    /\ mappings = EmptyMap
    /\ counter = ZeroCounter
    /\ guiPc = "idle"
    /\ guiText = <<>>
    /\ guiSan = <<>>
    /\ guiResp = <<>>
    /\ guiOut = <<>>
    /\ provSeen = NIL
    /\ chanOut = NIL
    /\ clearedSince = FALSE
    /\ issued = {}
    /\ firsts = <<>>

SanNext ==
    GuiSanitize \/ GuiChat \/ GuiChatError \/ GuiRestore \/ GuiReturned
    \/ OtherSanitize \/ ChannelMessage

SanitizerSpec == SanInit /\ [][SanNext]_vars

----------------------------------------------------------------------------
(* Sanitizer claims *)

Filtering == sEnabled /\ Len(sFilters) > 0

(* C14: with filtering enabled, Restore(Sanitize(x)) = x for every text x  *)
(* as long as the map was not cleared between the two calls, also when     *)
(* other Sanitize calls run between them.                                  *)
C14_RoundTrip ==
    (Filtering /\ guiPc = "returned" /\ guiResp = guiSan /\ ~clearedSince) =>
        guiOut = guiText

(* The texts in which no token has the shape of a placeholder *)
NoPlaceholderShape(text) == \A i \in 1..Len(text) : text[i] # "[EMAIL_1]"

C14_RoundTripOfPlainTexts ==
    (Filtering /\ guiPc = "returned" /\ guiResp = guiSan /\ ~clearedSince
     /\ NoPlaceholderShape(guiText)) =>
        guiOut = guiText

(* How many of the first i new entries belong to the prefix of entry i *)
RankInKind(i) ==
    Cardinality({j \in 1..i : firsts[j].prefix = firsts[i].prefix})

(* C15: between two clears the same literal always receives the same      *)
(* placeholder, within a call and across calls, two different literals     *)
(* never receive the same placeholder, and a literal seen for the first    *)
(* time gets "[<PREFIX>_<n>]" with n the kind's counter incremented by one.*)
C15_StablePlaceholders ==
    /\ \A p \in issued, q \in issued : (p[1] = q[1]) <=> (p[2] = q[2])
    /\ \A i \in 1..Len(firsts) :
          /\ firsts[i].ph =
                "[" \o firsts[i].prefix \o "_" \o ToString(RankInKind(i)) \o "]"
          /\ <<firsts[i].lit, firsts[i].ph>> \in issued
    /\ \A p \in issued : \E i \in 1..Len(firsts) : firsts[i].lit = p[1]
    /\ \A f \in {"EMAIL", "IP"} :
          counter[f] = Cardinality({i \in 1..Len(firsts) : firsts[i].prefix = f})

(* A literal met twice in one text, after another literal of its kind was  *)
(* mapped by an earlier call                                               *)
C15_Witness ==
    /\ guiPc = "sanitized"
    /\ guiText = <<"b@x.io", "b@x.io">>
    /\ guiSan = <<"[EMAIL_2]", "[EMAIL_2]">>
    /\ <<"a@x.io", "[EMAIL_1]">> \in issued

(* C16: the placeholder map never holds more than maxPIIMappings entries,  *)
(* also when a single text contains many distinct literals.                *)
C16_MapBounded == Cardinality(DOMAIN mappings) <= maxPIIMappings

HasPII(text) ==
    \E i \in 1..Len(text) : \E k \in 1..Len(sFilters) : Matches(text[i], sFilters[k])

Apology ==
    <<"Sorry, I encountered an error processing your message. Please try again.">>

(* C17: with PII filtering enabled, every user text that reaches the       *)
(* provider, by the GUI path or by a channel's handler, went through       *)
(* Sanitize, and every final response goes through Restore before it is    *)
(* returned or sent.                                                       *)
C17_AllTrafficSanitized ==
    Filtering =>
        /\ provSeen # NIL => (provSeen.sanitized /\ ~HasPII(provSeen.text))
        /\ guiPc = "returned" => guiOut = Restore(guiResp, sEnabled, mappings)
        /\ (chanOut # NIL /\ chanOut.text # Apology) => chanOut.restored

(* The GUI path alone does what C17 says *)
C17_GuiPathSanitized ==
    Filtering =>
        /\ (provSeen # NIL /\ provSeen.path = "gui") =>
               (provSeen.sanitized /\ ~HasPII(provSeen.text))
        /\ guiPc = "returned" => guiOut = Restore(guiResp, sEnabled, mappings)

----------------------------------------------------------------------------
(* memory.SQLiteMemory.  A table is a set of rows; every statement runs    *)
(* atomically and succeeds.                                                 *)

MaxRows == 3
MaxLimit == 3

(* The messages callers save under a chat *)
MemMessages(c) ==
    {TextMessage("user", c \o " msg"),
     Message("assistant", "", <<ToolCall("t1", "shell")>>, NoID),
     Message("tool", c \o " out", <<>>, "t1")}

SummaryTexts == {"S", "T"}

(* sql.NullString *)
NullString(valid, str) == [Valid |-> valid, String |-> str]

(* SaveMessage lines 51-61: tool_calls and tool_call_id are NULL when the  *)
(* message has none; the calls are stored as their JSON encoding           *)
EncodeRow(id, chat, msg) ==
    [id |-> id, chat_id |-> chat, role |-> msg.Role, content |-> msg.Content,
     tool_calls |-> IF Len(msg.ToolCalls) > 0
                    THEN [Valid |-> TRUE, JSON |-> msg.ToolCalls]
                    ELSE [Valid |-> FALSE, JSON |-> <<>>],
     tool_call_id |-> IF msg.ToolCallID # ""
                      THEN NullString(TRUE, msg.ToolCallID)
                      ELSE NullString(FALSE, "")]

(* INSERT INTO messages (...) VALUES (...) with the next AUTOINCREMENT id *)
InsertMessage(tbl, id, chat, msg) == tbl \cup {EncodeRow(id, chat, msg)}

(* GetHistory lines 84-100: rows.Scan and the decoding of the NULLable     *)
(* columns                                                                  *)
ScanRow(row) ==
    Message(row.role, row.content,
            IF row.tool_calls.Valid THEN row.tool_calls.JSON ELSE <<>>,
            IF row.tool_call_id.Valid THEN row.tool_call_id.String ELSE NoID)

(* ORDER BY id ASC over a set of rows *)
RECURSIVE OrderByIdAsc(_)
OrderByIdAsc(rs) ==
    IF rs = {} THEN <<>>
    ELSE LET first == CHOOSE r \in rs : \A q \in rs : r.id <= q.id
         IN  <<first>> \o OrderByIdAsc(rs \ {first})

(* A variant of SelectHistory that keeps the oldest rows: LIMIT without    *)
(* ORDER BY id DESC                                                        *)
SelectHistory_Oldest(tbl, chat, limit) ==
    LET own == {r \in tbl : r.chat_id = chat}
        top == {r \in own : Cardinality({q \in own : q.id < r.id}) < limit}
        sub == OrderByIdAsc(top)
    IN  [i \in 1..Len(sub) |-> ScanRow(sub[i])]

(* A variant of SelectHistory without WHERE chat_id = ? *)
SelectHistory_AnyChat(tbl, chat, limit) ==
    LET top == {r \in tbl : Cardinality({q \in tbl : q.id > r.id}) < limit}
        sub == OrderByIdAsc(top)
    IN  [i \in 1..Len(sub) |-> ScanRow(sub[i])]

(* GetHistory lines 71-77: SELECT ... FROM (SELECT ... FROM messages       *)
(* WHERE chat_id = ? ORDER BY id DESC LIMIT ?) sub ORDER BY id ASC         *)
SelectHistory(tbl, chat, limit) ==
    LET own == {r \in tbl : r.chat_id = chat}
        top == {r \in own : Cardinality({q \in own : q.id > r.id}) < limit}
        sub == OrderByIdAsc(top)
    IN  [i \in 1..Len(sub) |-> ScanRow(sub[i])]

(* A variant of UpsertSummary that replaces the whole table *)
UpsertSummary_Clobber(tbl, chat, summary) ==
    {[chat_id |-> chat, summary |-> summary]}

(* INSERT OR REPLACE INTO summaries: chat_id is the primary key *)
UpsertSummary(tbl, chat, summary) ==
    {r \in tbl : r.chat_id # chat} \cup {[chat_id |-> chat, summary |-> summary]}

(* GetSummary lines 114-122: sql.ErrNoRows becomes ("", nil) *)
SelectSummary(tbl, chat) ==
    LET found == {r \in tbl : r.chat_id = chat}
    IN  IF found = {} THEN [summary |-> "", err |-> "nil"]
        ELSE [summary |-> (CHOOSE r \in found : TRUE).summary, err |-> "nil"]

SaveMessageCall ==
    /\ nextRowID <= MaxRows
    /\ \E c \in ChatIDs : \E m \in MemMessages(c) :
         /\ rows' = InsertMessage(rows, nextRowID, c, m)
         /\ saved' = [saved EXCEPT ![c] = Append(@, m)]
    /\ nextRowID' = nextRowID + 1
    /\ memHist' = NIL
    /\ memSum' = NIL
    /\ UNCHANGED <<sumRows, lastSummary, notMemVars>>

GetHistoryCall ==
    /\ \E c \in ChatIDs, limit \in 0..MaxLimit :
         memHist' = [chat |-> c, limit |-> limit,
                     msgs |-> SelectHistory(rows, c, limit)]
    /\ memSum' = NIL
    /\ UNCHANGED <<rows, nextRowID, sumRows, saved, lastSummary, notMemVars>>

SaveSummaryCall ==
    /\ \E c \in ChatIDs, t \in SummaryTexts :
         /\ sumRows' = UpsertSummary(sumRows, c, t)
         /\ lastSummary' = [lastSummary EXCEPT ![c] = [saved |-> TRUE, text |-> t]]
    /\ memHist' = NIL
    /\ memSum' = NIL
    /\ UNCHANGED <<rows, nextRowID, saved, notMemVars>>

GetSummaryCall ==
    /\ \E c \in ChatIDs :
         LET r == SelectSummary(sumRows, c)
         IN  memSum' = [chat |-> c, summary |-> r.summary, err |-> r.err]
    /\ memHist' = NIL
    /\ UNCHANGED <<rows, nextRowID, sumRows, saved, lastSummary, notMemVars>>

MemInit == AgentIdle /\ FbIdle /\ SanIdle /\ MemIdle /\ LateIdle

MemNext == SaveMessageCall \/ GetHistoryCall \/ SaveSummaryCall \/ GetSummaryCall

MemSpec == MemInit /\ [][MemNext]_vars

----------------------------------------------------------------------------
(* Store claims *)

Min(a, b) == IF a <= b THEN a ELSE b

(* Every row of the table, per chat, in id order *)
WholeHistory(c) == SelectHistory(rows, c, Cardinality(rows))

(* C18: GetHistory(chatID, limit) returns the min(limit, n) most recently  *)
(* saved messages of the chat, oldest first, in insertion order, and no    *)
(* saved message is ever removed or reordered.                             *)
C18_MostRecentInOrder ==
    /\ memHist # NIL =>
          LET own == saved[memHist.chat]
              k == Min(memHist.limit, Len(own))
          IN  /\ Len(memHist.msgs) = k
              /\ memHist.msgs = SubSeq(own, Len(own) - k + 1, Len(own))
    /\ \A c \in ChatIDs : WholeHistory(c) = saved[c]

(* More messages than the limit: the oldest one is left out                *)
C18_Witness ==
    /\ memHist # NIL
    /\ memHist.limit = 2
    /\ Len(saved[memHist.chat]) = 3
    /\ memHist.msgs = Tail(saved[memHist.chat])
    /\ memHist.msgs[1].ToolCalls # <<>>
    /\ memHist.msgs[2].ToolCallID = "t1"

(* C19: whatever the interleaving of SaveMessage calls on distinct chats,  *)
(* the history of a chat holds only messages saved under it, in its own    *)
(* order; another chat's messages neither appear among them nor take their *)
(* places under the limit.                                                 *)
C19_ChatsIsolated ==
    memHist # NIL =>
        LET own == saved[memHist.chat]
            got == memHist.msgs
        IN  /\ \A i \in 1..Len(got) : got[i] \in MemMessages(memHist.chat)
            /\ Len(got) <= Len(own)
            /\ \A i \in 1..Len(got) : got[i] = own[Len(own) - Len(got) + i]
            /\ Len(got) = Min(memHist.limit, Len(own))

(* The rows of the chat asked for are older than, and interleaved with,    *)
(* the rows of the other chat                                              *)
C19_Witness ==
    /\ memHist # NIL
    /\ memHist.chat = "c1"
    /\ memHist.limit = 2
    /\ Len(memHist.msgs) = 2
    /\ \E r1 \in rows, r2 \in rows, r3 \in rows :
          /\ r1.chat_id = "c1" /\ r2.chat_id = "c2" /\ r3.chat_id = "c1"
          /\ r1.id < r2.id /\ r2.id < r3.id

(* C20: a chat has at most one summary; SaveSummary replaces the chat's    *)
(* earlier summary and leaves every other chat's summary and all messages  *)
(* as they were; GetSummary returns the last saved summary, or "" without  *)
(* an error when none was saved.                                           *)
C20_OneSummaryPerChat ==
    /\ \A c \in ChatIDs :
          LET own == {r \in sumRows : r.chat_id = c}
          IN  /\ Cardinality(own) <= 1
              /\ lastSummary[c].saved =>
                    own = {[chat_id |-> c, summary |-> lastSummary[c].text]}
              /\ ~lastSummary[c].saved => own = {}
    /\ memSum # NIL =>
          /\ memSum.err = "nil"
          /\ memSum.summary = (IF lastSummary[memSum.chat].saved
                               THEN lastSummary[memSum.chat].text ELSE "")
    /\ \A c \in ChatIDs : Len(WholeHistory(c)) = Len(saved[c])

(* The summary of one chat was replaced while the other chat kept its own  *)
C20_Witness ==
    /\ memSum # NIL
    /\ memSum.chat = "c1"
    /\ memSum.summary = "T"
    /\ sumRows = {[chat_id |-> "c1", summary |-> "T"],
                  [chat_id |-> "c2", summary |-> "S"]}
    /\ rows # {}

(* No summary was ever saved for the chat asked for                        *)
C20_NoSummaryCase ==
    /\ memSum # NIL
    /\ memSum.summary = ""
    /\ ~lastSummary[memSum.chat].saved
    /\ sumRows # {}

----------------------------------------------------------------------------
(* tool.ShellTool.  A command is a sequence of characters.                 *)

Lower == {"a", "b", "c", "d", "e", "f", "g", "h", "i", "j", "k", "l", "m",
          "n", "o", "p", "q", "r", "s", "t", "u", "v", "w", "x", "y", "z"}
Upper == {"A", "B", "C", "D", "E", "F", "G", "H", "I", "J", "K", "L", "M",
          "N", "O", "P", "Q", "R", "S", "T", "U", "V", "W", "X", "Y", "Z"}
Digits == {"0", "1", "2", "3", "4", "5", "6", "7", "8", "9"}

IsLetter(c) == c \in Lower \cup Upper

(* \w of the regexp package *)
IsWordChar(c) == c \in Lower \cup Upper \cup Digits \cup {"_"}

(* the characters collapseWhitespace folds (line 222) *)
IsBlank(c) == c \in {" ", "\t", "\n", "\r"}

(* \s of the regexp package (the form feed is left out) *)
IsSpaceClass(c) == c \in {" ", "\t", "\n", "\r"}

(* \b between positions i-1 and i of s *)
WordBoundary(s, i) ==
    LET before == i > 1 /\ i - 1 <= Len(s) /\ IsWordChar(s[i - 1])
        after == i >= 1 /\ i <= Len(s) /\ IsWordChar(s[i])
    IN  before # after

HasPrefix(s, prefix) ==
    Len(prefix) <= Len(s) /\ SubSeq(s, 1, Len(prefix)) = prefix

(* strings.Contains *)
Contains(s, sub) ==
    \E i \in 1..(Len(s) - Len(sub) + 1) : SubSeq(s, i, i + Len(sub) - 1) = sub

(* collapseWhitespace, lines 217-233 *)
RECURSIVE Collapse(_, _)
Collapse(s, inSpace) ==
    IF s = <<>> THEN <<>>
    ELSE IF IsBlank(Head(s))
         THEN (IF inSpace THEN <<>> ELSE <<" ">>) \o Collapse(Tail(s), TRUE)
         ELSE <<Head(s)>> \o Collapse(Tail(s), FALSE)

collapseWhitespace(s) == Collapse(s, FALSE)

(* (?i)\brm\s+-[rRf]{1,3}\b  (line 18; every match of line 17 is one of it) *)
MatchesRm(s) ==
    \E i \in 1..Len(s) : \E j \in (i + 2)..Len(s) : \E k \in 1..3 :
        /\ WordBoundary(s, i)
        /\ s[i] \in {"r", "R"}
        /\ s[i + 1] \in {"m", "M"}
        /\ \A x \in (i + 2)..j : IsSpaceClass(s[x])
        /\ j + 1 + k <= Len(s)
        /\ s[j + 1] = "-"
        /\ \A x \in (j + 2)..(j + 1 + k) : s[x] \in {"r", "R", "f", "F"}
        /\ WordBoundary(s, j + 2 + k)

(* (?i)\beval\b  (line 35) *)
MatchesEval(s) ==
    \E i \in 1..(Len(s) - 3) :
        /\ WordBoundary(s, i)
        /\ s[i] \in {"e", "E"} /\ s[i + 1] \in {"v", "V"}
        /\ s[i + 2] \in {"a", "A"} /\ s[i + 3] \in {"l", "L"}
        /\ WordBoundary(s, i + 4)

(* checkDenyList, lines 205-214, over the two patterns above: the reason, *)
(* "" when no pattern matches                                              *)
checkDenyList(command) ==
    LET normalized == collapseWhitespace(command)
    IN  IF MatchesRm(normalized) \/ MatchesEval(normalized)
        THEN "matches deny pattern" ELSE ""

(* the class [a-zA-Z0-9_/.-] *)
IsPathChar(c) == IsWordChar(c) \/ c \in {"/", ".", "-"}

\* The submatches in s of the pattern  (?:^|\s)(/[a-zA-Z][a-zA-Z0-9_/.-]*)  (line 242)
AbsPathMatches(s) ==
    {SubSeq(s, i, CHOOSE e \in i..Len(s) :
                     /\ \A x \in (i + 2)..e : IsPathChar(s[x])
                     /\ (e = Len(s) \/ ~IsPathChar(s[e + 1]))
                     /\ e >= i + 1) :
       i \in {p \in 1..(Len(s) - 1) :
                /\ (p = 1 \/ IsSpaceClass(s[p - 1]))
                /\ s[p] = "/"
                /\ IsLetter(s[p + 1])}}

WorkspaceDir == <<"/", "w", "s">>
DevNull == <<"/", "d", "e", "v", "/", "n", "u", "l", "l">>

(* containsAbsolutePathOutsideWorkspace, lines 236-253; workspace is an    *)
(* absolute clean path, so filepath.Abs returns it                         *)
containsAbsolutePathOutsideWorkspace(command, workspace) ==
    \E path \in AbsPathMatches(command) :
        ~HasPrefix(path, workspace) /\ ~HasPrefix(path, DevNull)

MaxWords == 2

(* The words commands are made of: ls rm -rf eval / /etc /ws/a /dev/null   *)
(* /dev/nullx ../a                                                         *)
Words ==
    {<<"l", "s">>,
     <<"r", "m">>,
     <<"-", "r", "f">>,
     <<"e", "v", "a", "l">>,
     <<"/">>,
     <<"/", "e", "t", "c">>,
     <<"/", "w", "s", "/", "a">>,
     <<"/", "d", "e", "v", "/", "n", "u", "l", "l">>,
     <<"/", "d", "e", "v", "/", "n", "u", "l", "l", "x">>,
     <<".", ".", "/", "a">>}

(* one blank, or two *)
Separators == {<<" ">>, <<" ", " ">>}

RECURSIVE WordLists(_)
WordLists(n) ==
    IF n = 1 THEN Words
    ELSE LET shorter == WordLists(n - 1)
         IN  shorter \cup {c \o sep \o w : c \in shorter, sep \in Separators, w \in Words}

(* echo hi ; rm  -rf /   (two blanks after rm) *)
ExampleCommand ==
    <<"e", "c", "h", "o", " ", "h", "i", " ", ";", " ", "r", "m", " ", " ", "-", "r", "f", " ", "/">>

Commands == {<<>>, ExampleCommand} \cup WordLists(MaxWords)

(* What the subprocess may end with: cmd.CombinedOutput's err *)
ExitErrors == {"", "exit status 1"}

(* ShellTool.Execute, lines 147-203.  The tool keeps no state between     *)
(* calls, so one call is followed.                                         *)
ShExecute ==
    /\ shRes = NIL
    /\ \E cmd \in Commands :
         /\ shCmd' = cmd
         /\ IF Len(cmd) = 0
            THEN /\ shRes' = [IsError |-> TRUE, Error |-> "command is required"]
                 /\ shSpawned' = FALSE
            ELSE IF shSandbox /\ checkDenyList(cmd) # ""
            THEN /\ shRes' = [IsError |-> TRUE,
                              Error |-> "command blocked by sandbox: " \o checkDenyList(cmd)]
                 /\ shSpawned' = FALSE
            ELSE IF shSandbox /\ Contains(cmd, <<".", ".", "/">>)
            THEN /\ shRes' = [IsError |-> TRUE,
                              Error |-> "command blocked: path traversal detected"]
                 /\ shSpawned' = FALSE
            ELSE IF shSandbox /\ Len(WorkspaceDir) # 0
                    /\ containsAbsolutePathOutsideWorkspace(cmd, WorkspaceDir)
            THEN /\ shRes' = [IsError |-> TRUE,
                              Error |-> "command blocked: absolute path outside workspace"]
                 /\ shSpawned' = FALSE
            ELSE /\ shSpawned' = TRUE
                 /\ \E e \in ExitErrors : shRes' = [IsError |-> e # "", Error |-> e]
    /\ UNCHANGED <<shSandbox, notShVars>>

(* NewShellTool with either value of cfg.SandboxEnabled *)
ShInit ==
    /\ notShIdle
    /\ shSandbox \in BOOLEAN
    /\ shCmd = <<>>
    /\ shRes = NIL
    /\ shSpawned = FALSE

ShNext == ShExecute

ShellSpec == ShInit /\ [][ShNext]_vars

----------------------------------------------------------------------------
(* Shell claims *)

(* The maximal runs of non-blank characters of s *)
BlankSeparatedTokens(s) ==
    {SubSeq(s, i, e) : <<i, e>> \in
        {p \in (1..Len(s)) \X (1..Len(s)) :
            /\ p[1] <= p[2]
            /\ \A x \in p[1]..p[2] : ~IsBlank(s[x])
            /\ (p[1] = 1 \/ IsBlank(s[p[1] - 1]))
            /\ (p[2] = Len(s) \/ IsBlank(s[p[2] + 1]))}}

AbsolutePathTokens(s) == {t \in BlankSeparatedTokens(s) : Head(t) = "/"}

SafeCommand(s) ==
    /\ checkDenyList(s) = ""
    /\ ~Contains(s, <<".", ".", "/">>)
    /\ \A t \in AbsolutePathTokens(s) : HasPrefix(t, WorkspaceDir) \/ t = DevNull

(* C21: with the sandbox enabled a subprocess is spawned only for a        *)
(* command that no deny pattern matches after whitespace normalization,    *)
(* that has no "../" and whose absolute-path tokens all begin with the     *)
(* workspace or equal /dev/null; any other command returns is_error and is *)
(* not executed.                                                           *)
C21_OnlySafeCommandsSpawn ==
    (shSandbox /\ shRes # NIL /\ Len(shCmd) > 0) =>
        /\ shSpawned => SafeCommand(shCmd)
        /\ ~SafeCommand(shCmd) => (shRes.IsError /\ ~shSpawned)

(* What the code enforces: the example of the claim and the three checks   *)
C21_ChecksAsCoded ==
    (shSandbox /\ shRes # NIL /\ Len(shCmd) > 0) =>
        /\ shCmd = ExampleCommand => (shRes.IsError /\ ~shSpawned)
        /\ shSpawned =>
              /\ checkDenyList(shCmd) = ""
              /\ ~Contains(shCmd, <<".", ".", "/">>)
              /\ \A t \in AbsolutePathTokens(shCmd) :
                    (Len(t) > 1 /\ IsLetter(t[2])) =>
                        (HasPrefix(t, WorkspaceDir) \/ HasPrefix(t, DevNull))


-----------------------------------------------------------------------------
(***************************************************************************)
(* tool.FilesystemTool (src/internal/tool/filesystem.go).  A path is the   *)
(* sequence of its components, the root being << >>; the file tree maps    *)
(* the real paths that exist to a directory, a file or a symbolic link.    *)
(***************************************************************************)
FsWorkspace == <<"ws">>

(* The characters of a component, for the tests the code makes on strings *)
NameChars(n) ==
    CASE n = "ws"  -> <<"w", "s">>
      [] n = "wsx" -> <<"w", "s", "x">>
      [] n = "out" -> <<"o", "u", "t">>
      [] n = ".."  -> <<".", ".">>
      [] OTHER     -> <<n>>

RECURSIVE JoinChars(_)
JoinChars(path) ==
    IF path = <<>> THEN <<>>
    ELSE <<"/">> \o NameChars(Head(path)) \o JoinChars(Tail(path))

(* The string of an absolute path: "/" for the root, "/ws/a" otherwise *)
PathString(path) == IF path = <<>> THEN <<"/">> ELSE JoinChars(path)

(* The string of params.Path, components joined by "/" *)
RelString(rel) == IF rel = <<>> THEN <<>> ELSE Tail(JoinChars(rel))

DirNode == [kind |-> "dir", target |-> <<>>, data |-> ""]
FileNode(d) == [kind |-> "file", target |-> <<>>, data |-> d]
LinkNode(t) == [kind |-> "link", target |-> t, data |-> ""]

(* What lies outside the workspace, and the workspace directory itself *)
BaseTree ==
    (<<"ws">> :> DirNode) @@ (<<"out">> :> DirNode) @@ (<<"wsx">> :> DirNode)
    @@ (<<"out", "s">> :> FileNode("secret"))
    @@ (<<"wsx", "s">> :> FileNode("secret"))

(* What the workspace holds at the start: entry a is absent, a directory   *)
(* or a link to a directory outside; entry l is absent, a file or a link   *)
(* to a file outside                                                       *)
EntryA == {"none", "dir", "out", "wsx"}
EntryL == {"none", "file", "link"}

Tree(a, l) ==
    (IF a = "none" THEN BaseTree
     ELSE IF a = "dir" THEN (<<"ws", "a">> :> DirNode) @@ BaseTree
     ELSE (<<"ws", "a">> :> LinkNode(<<a>>)) @@ BaseTree)
    @@
    (IF l = "file" THEN (<<"ws", "l">> :> FileNode("old"))
     ELSE IF l = "link" THEN (<<"ws", "l">> :> LinkNode(<<"out", "s">>))
     ELSE (<<"ws">> :> DirNode))

InitialTrees == {Tree(a, l) : a \in EntryA, l \in EntryL}

(* Following symbolic links component by component, as the kernel does:   *)
(* ok tells whether every component exists, loc is the real location       *)
(* (for a missing tail, where it would be created)                         *)
RECURSIVE Walk(_, _, _, _)
Walk(fs, cur, rest, fuel) ==
    IF rest = <<>> THEN [ok |-> TRUE, loc |-> cur]
    ELSE LET p == Append(cur, Head(rest)) IN
         IF p \notin DOMAIN fs
         THEN [ok |-> FALSE, loc |-> p \o Tail(rest)]
         ELSE IF fs[p].kind = "link"
         THEN IF fuel = 0 THEN [ok |-> FALSE, loc |-> p \o Tail(rest)]
              ELSE Walk(fs, <<>>, fs[p].target \o Tail(rest), fuel - 1)
         ELSE IF fs[p].kind = "file" /\ Tail(rest) # <<>>
         THEN [ok |-> FALSE, loc |-> p \o Tail(rest)]
         ELSE Walk(fs, p, Tail(rest), fuel)

(* filepath.EvalSymlinks *)
EvalSymlinks(fs, path) == Walk(fs, <<>>, path, Cardinality(DOMAIN fs))

(* filepath.Dir of a clean absolute path *)
Dir(path) == IF path = <<>> THEN <<>> ELSE SubSeq(path, 1, Len(path) - 1)

(* filepath.Clean of a path without "..": the "." components go *)
Clean(rel) == SelectSeq(rel, LAMBDA c : c # ".")

(* filepath.Join(workspaceDir, clean) *)
Join(ws, rel) == ws \o rel

(* resolvePath, lines 76-103; the workspace is an absolute clean path, so  *)
(* filepath.Abs changes neither it nor the joined path                     *)
resolvePath(fs, workspaceDir, relPath) ==
    LET fullPath == Join(workspaceDir, Clean(relPath))
        resolved == EvalSymlinks(fs, Dir(fullPath))
    IN  IF Contains(RelString(relPath), <<".", ".">>)
        THEN [err |-> "path traversal not allowed", path |-> <<>>]
        ELSE IF ~HasPrefix(PathString(fullPath), PathString(workspaceDir))
        THEN [err |-> "path outside workspace", path |-> <<>>]
        ELSE IF resolved.ok
                /\ ~HasPrefix(PathString(resolved.loc), PathString(workspaceDir))
        THEN [err |-> "symlink escapes workspace", path |-> <<>>]
        ELSE [err |-> "", path |-> fullPath]

OkResult == [IsError |-> FALSE, Error |-> ""]
ErrResult(e) == [IsError |-> TRUE, Error |-> e]

(* readFile, lines 105-115: os.ReadFile follows links in every component *)
readFile(fs, path) ==
    LET r == EvalSymlinks(fs, path) IN
    IF r.ok /\ r.loc \in DOMAIN fs /\ fs[r.loc].kind = "file"
    THEN [res |-> OkResult, fs |-> fs, touched |-> {r.loc}]
    ELSE [res |-> ErrResult("failed to read file"), fs |-> fs, touched |-> {}]

(* os.MkdirAll: missing directories are made where the path really leads *)
RECURSIVE MkdirAll(_, _, _, _, _)
MkdirAll(fs, cur, rest, made, fuel) ==
    IF rest = <<>> THEN [ok |-> TRUE, fs |-> fs, loc |-> cur, made |-> made]
    ELSE LET p == Append(cur, Head(rest)) IN
         IF p \notin DOMAIN fs
         THEN MkdirAll((p :> DirNode) @@ fs, p, Tail(rest), made \cup {p}, fuel)
         ELSE IF fs[p].kind = "link"
         THEN IF fuel = 0 THEN [ok |-> FALSE, fs |-> fs, loc |-> p, made |-> made]
              ELSE MkdirAll(fs, <<>>, fs[p].target \o Tail(rest), made, fuel - 1)
         ELSE IF fs[p].kind = "file"
         THEN [ok |-> FALSE, fs |-> fs, loc |-> p, made |-> made]
         ELSE MkdirAll(fs, p, Tail(rest), made, fuel)

(* os.WriteFile: the file is created or truncated where its name leads,    *)
(* a link in the last component being followed                             *)
WriteFile(fs, path, content) ==
    LET r == EvalSymlinks(fs, path) IN
    IF r.loc \in DOMAIN fs
    THEN IF r.ok /\ fs[r.loc].kind = "file"
         THEN [ok |-> TRUE, fs |-> (r.loc :> FileNode(content)) @@ fs,
               touched |-> {r.loc}]
         ELSE [ok |-> FALSE, fs |-> fs, touched |-> {}]
    ELSE IF r.loc # <<>> /\ EvalSymlinks(fs, Dir(r.loc)).ok
            /\ Dir(r.loc) = EvalSymlinks(fs, Dir(r.loc)).loc
    THEN [ok |-> TRUE, fs |-> (r.loc :> FileNode(content)) @@ fs,
          touched |-> {r.loc}]
    ELSE [ok |-> FALSE, fs |-> fs, touched |-> {}]

(* writeFile, lines 117-126 *)
writeFile(fs, path, content) ==
    LET m == MkdirAll(fs, <<>>, Dir(path), {}, Cardinality(DOMAIN fs))
        w == WriteFile(m.fs, path, content)
    IN  IF ~m.ok
        THEN [res |-> ErrResult("failed to create directory"), fs |-> m.fs,
              touched |-> m.made]
        ELSE IF ~w.ok
        THEN [res |-> ErrResult("failed to write file"), fs |-> m.fs,
              touched |-> m.made]
        ELSE [res |-> OkResult, fs |-> w.fs, touched |-> m.made \cup w.touched]

(* listDir, lines 128-142: os.ReadDir follows links in every component *)
listDir(fs, path) ==
    LET r == EvalSymlinks(fs, path) IN
    IF r.ok /\ r.loc \in DOMAIN fs /\ fs[r.loc].kind = "dir"
    THEN [res |-> OkResult, fs |-> fs, touched |-> {r.loc}]
    ELSE [res |-> ErrResult("failed to list directory"), fs |-> fs, touched |-> {}]

FsActions == {"read", "write", "list", "delete"}
RelPaths ==
    { <<"f">>, <<"l">>, <<"a">>, <<"a", "s">>, <<"a", "b", "f">>,
      <<".">>, <<".", "f">>, <<"..", "out", "s">> }

(* Execute, lines 48-74 *)
FsExecute ==
    \E action \in FsActions, relPath \in RelPaths :
       LET p == resolvePath(fsNodes, FsWorkspace, relPath)
           r == CASE action = "read"  -> readFile(fsNodes, p.path)
                  [] action = "write" -> writeFile(fsNodes, p.path, "new")
                  [] action = "list"  -> listDir(fsNodes, p.path)
                  [] OTHER -> [res |-> ErrResult("unknown action"),
                               fs |-> fsNodes, touched |-> {}]
       IN  /\ fsCall' = [action |-> action, path |-> relPath]
           /\ fsParentLoc' =
                EvalSymlinks(fsNodes, Dir(Join(FsWorkspace, Clean(relPath)))).loc
           /\ IF p.err # ""
              THEN /\ fsRes' = ErrResult(p.err)
                   /\ fsNodes' = fsNodes
                   /\ fsTouched' = {}
              ELSE /\ fsRes' = r.res
                   /\ fsNodes' = r.fs
                   /\ fsTouched' = r.touched
           /\ UNCHANGED notFsVars

FsInit ==
    /\ notFsIdle
    /\ fsNodes \in InitialTrees
    /\ fsCall = NIL
    /\ fsRes = NIL
    /\ fsTouched = {}
    /\ fsParentLoc = NIL

FsNext == FsExecute

FsSpec == FsInit /\ [][FsNext]_vars

ResolveErrors ==
    {"path traversal not allowed", "path outside workspace",
     "symlink escapes workspace"}

(* The last call's path passed resolvePath *)
FsAccepted == fsCall # NIL /\ fsRes.Error \notin ResolveErrors
FsRejected == fsCall # NIL /\ fsRes.Error \in ResolveErrors

FsFullPath == Join(FsWorkspace, Clean(fsCall.path))

(* C22: every path the filesystem tool accepts contains no "..", its       *)
(* absolute target begins with the workspace path and the real location of *)
(* its parent directory (links followed) begins with the workspace path; a *)
(* path failing one of these is rejected with is_error = true before       *)
(* anything is read, written or listed.                                    *)
C22_AcceptedPathsInside ==
    /\ FsAccepted =>
         /\ ~Contains(RelString(fsCall.path), <<".", ".">>)
         /\ HasPrefix(PathString(FsFullPath), PathString(FsWorkspace))
         /\ HasPrefix(PathString(fsParentLoc), PathString(FsWorkspace))
    /\ FsRejected => fsRes.IsError /\ fsTouched = {}

(* What resolvePath does enforce: the parent's real location is looked at  *)
(* only when every component of the parent exists                          *)
C22_ChecksAsCoded ==
    /\ FsAccepted =>
         /\ ~Contains(RelString(fsCall.path), <<".", ".">>)
         /\ HasPrefix(PathString(FsFullPath), PathString(FsWorkspace))
    /\ FsRejected => fsRes.IsError /\ fsTouched = {}

(* A path is inside the workspace when the workspace's components lead it *)
Inside(path) ==
    /\ Len(path) >= Len(FsWorkspace)
    /\ SubSeq(path, 1, Len(FsWorkspace)) = FsWorkspace

(* C23: the workspace bounds every file operation: nothing whose real      *)
(* location lies outside the workspace is read, written, created or listed *)
C23_WorkspaceBoundsOperations ==
    \A p \in fsTouched : Inside(p)

-----------------------------------------------------------------------------
(***************************************************************************)
(* tool.BrowserTool (src/internal/tool/browser.go).  A URL, a host and a   *)
(* domain are sequences of characters.                                     *)
(***************************************************************************)
UpperSeq ==
    <<"A", "B", "C", "D", "E", "F", "G", "H", "I", "J", "K", "L", "M",
      "N", "O", "P", "Q", "R", "S", "T", "U", "V", "W", "X", "Y", "Z">>
LowerSeq ==
    <<"a", "b", "c", "d", "e", "f", "g", "h", "i", "j", "k", "l", "m",
      "n", "o", "p", "q", "r", "s", "t", "u", "v", "w", "x", "y", "z">>

ToLowerChar(c) ==
    IF c \in Upper
    THEN LowerSeq[CHOOSE i \in 1..Len(UpperSeq) : UpperSeq[i] = c]
    ELSE c

(* strings.ToLower *)
ToLower(s) == [i \in 1..Len(s) |-> ToLowerChar(s[i])]

(* strings.HasSuffix *)
HasSuffix(s, suffix) ==
    Len(suffix) <= Len(s)
    /\ SubSeq(s, Len(s) - Len(suffix) + 1, Len(s)) = suffix

(* strings.IndexByte: 0 when c does not occur *)
IndexByte(s, c) ==
    IF \E i \in 1..Len(s) : s[i] = c
    THEN CHOOSE i \in 1..Len(s) : s[i] = c /\ \A j \in 1..(i - 1) : s[j] # c
    ELSE 0

(* strings.LastIndex of one character: 0 when c does not occur *)
LastIndexByte(s, c) ==
    IF \E i \in 1..Len(s) : s[i] = c
    THEN CHOOSE i \in 1..Len(s) : s[i] = c /\ \A j \in (i + 1)..Len(s) : s[j] # c
    ELSE 0

(* url.getScheme: the scheme is the letters, digits, "+", "-" and "."      *)
(* before the first ":", and begins with a letter; a URL without one has   *)
(* the empty scheme                                                        *)
IsSchemeChar(c) == IsLetter(c) \/ c \in Digits \/ c \in {"+", "-", "."}

getScheme(rawURL) ==
    LET colon == IndexByte(rawURL, ":") IN
    IF colon > 1 /\ IsLetter(rawURL[1])
       /\ \A i \in 1..(colon - 1) : IsSchemeChar(rawURL[i])
    THEN [scheme |-> SubSeq(rawURL, 1, colon - 1),
          rest |-> SubSeq(rawURL, colon + 1, Len(rawURL))]
    ELSE [scheme |-> <<>>, rest |-> rawURL]

(* url.Parse as far as validateURL uses it: the lower-case scheme and the  *)
(* host with its port, taken from the authority between "//" and the next  *)
(* "/", after the user information; a blank in the host is an error        *)
urlParse(rawURL) ==
    LET s == getScheme(rawURL)
        hasAuthority == HasPrefix(s.rest, <<"/", "/">>)
        afterSlashes == SubSeq(s.rest, 3, Len(s.rest))
        slash == IndexByte(afterSlashes, "/")
        authority == IF slash = 0 THEN afterSlashes
                     ELSE SubSeq(afterSlashes, 1, slash - 1)
        at == LastIndexByte(authority, "@")
        host == IF ~hasAuthority THEN <<>>
                ELSE SubSeq(authority, at + 1, Len(authority))
    IN  [err |-> \E i \in 1..Len(host) : host[i] = " ",
         Scheme |-> ToLower(s.scheme),
         Host |-> host]

(* URL.Hostname: the host without its port and without the brackets of an  *)
(* IPv6 literal (url.stripPort)                                            *)
Hostname(u) ==
    LET colon == IndexByte(u.Host, ":")
        bracket == IndexByte(u.Host, "]")
    IN  IF colon = 0 THEN u.Host
        ELSE IF bracket # 0
        THEN LET h == SubSeq(u.Host, 1, bracket - 1) IN
             IF HasPrefix(h, <<"[">>) THEN Tail(h) ELSE h
        ELSE SubSeq(u.Host, 1, colon - 1)
DigitSeq == <<"0", "1", "2", "3", "4", "5", "6", "7", "8", "9">>
DigitVal(c) == (CHOOSE i \in 1..Len(DigitSeq) : DigitSeq[i] = c) - 1

RECURSIVE Atoi(_)
Atoi(field) ==
    IF field = <<>> THEN 0
    ELSE 10 * Atoi(SubSeq(field, 1, Len(field) - 1)) + DigitVal(field[Len(field)])

(* strings.Split(s, ".") *)
RECURSIVE SplitDots(_)
SplitDots(s) ==
    LET dot == IndexByte(s, ".") IN
    IF dot = 0 THEN <<s>>
    ELSE <<SubSeq(s, 1, dot - 1)>> \o SplitDots(SubSeq(s, dot + 1, Len(s)))

(* One field of a dotted IPv4 address: one to three digits, no leading     *)
(* zero, at most 255                                                       *)
IsOctet(field) ==
    /\ Len(field) \in 1..3
    /\ \A i \in 1..Len(field) : field[i] \in Digits
    /\ (Len(field) > 1 => field[1] # "0")
    /\ Atoi(field) <= 255

(* net.IPv4(a, b, c, d): the 16-byte form of an IPv4 address *)
IPv4(a, b, c, d) == <<0, 0, 0, 0, 0, 0, 0, 0, 0, 0, 255, 255, a, b, c, d>>
IPv6loopback == <<0, 0, 0, 0, 0, 0, 0, 0, 0, 0, 0, 0, 0, 0, 0, 1>>
IPv6unspecified == <<0, 0, 0, 0, 0, 0, 0, 0, 0, 0, 0, 0, 0, 0, 0, 0>>

(* net.ParseIP: << >> stands for nil.  The IPv6 parser is tabulated for    *)
(* the two literals the requests use                                       *)
ParseIP(host) ==
    LET fields == SplitDots(host) IN
    IF IndexByte(host, ":") = 0
    THEN IF Len(fields) = 4 /\ \A i \in 1..4 : IsOctet(fields[i])
         THEN IPv4(Atoi(fields[1]), Atoi(fields[2]), Atoi(fields[3]), Atoi(fields[4]))
         ELSE <<>>
    ELSE IF host = <<":", ":", "1">> THEN IPv6loopback
    ELSE IF host = <<":", ":">> THEN IPv6unspecified
    ELSE <<>>

(* IP.To4: the four bytes of an IPv4 address, << >> for another address *)
To4(ip) ==
    IF SubSeq(ip, 1, 12) = SubSeq(IPv4(0, 0, 0, 0), 1, 12)
    THEN SubSeq(ip, 13, 16) ELSE <<>>

IsLoopback(ip) ==
    IF To4(ip) # <<>> THEN To4(ip)[1] = 127 ELSE ip = IPv6loopback

IsPrivate(ip) ==
    IF To4(ip) # <<>>
    THEN \/ To4(ip)[1] = 10
         \/ (To4(ip)[1] = 172 /\ To4(ip)[2] \in 16..31)
         \/ (To4(ip)[1] = 192 /\ To4(ip)[2] = 168)
    ELSE ip[1] \in {252, 253}

IsLinkLocalUnicast(ip) ==
    IF To4(ip) # <<>> THEN To4(ip)[1] = 169 /\ To4(ip)[2] = 254
    ELSE ip[1] = 254 /\ ip[2] \in 128..191

IsLinkLocalMulticast(ip) ==
    IF To4(ip) # <<>>
    THEN To4(ip)[1] = 224 /\ To4(ip)[2] = 0 /\ To4(ip)[3] = 0
    ELSE ip[1] = 255 /\ ip[2] % 16 = 2

IsUnspecified(ip) == ip = IPv4(0, 0, 0, 0) \/ ip = IPv6unspecified

(* isPrivateHost, lines 196-211 *)
isPrivateHost(host) ==
    LET lower == ToLower(host)
        ip == ParseIP(host)
    IN  IF lower \in {<<"l", "o", "c", "a", "l", "h", "o", "s", "t">>, <<"i", "p", "6", "-", "l", "o", "c", "a", "l", "h", "o", "s", "t">>, <<"i", "p", "6", "-", "l", "o", "o", "p", "b", "a", "c", "k">>}
        THEN TRUE
        ELSE IF ip = <<>> THEN FALSE
        ELSE \/ IsLoopback(ip) \/ IsPrivate(ip) \/ IsLinkLocalUnicast(ip)
             \/ IsLinkLocalMulticast(ip) \/ IsUnspecified(ip)

(* A variant that knows no subdomains *)
DomainMatches_ExactOnly(dl, domain) == dl = domain

(* The test both domain lists make, lines 173 and 182 *)
DomainMatches(dl, domain) == dl = domain \/ HasSuffix(domain, <<".">> \o dl)

(* validateURL, lines 148-193: the error, "" for an accepted URL *)
validateURL(rawURL, allowedDomains, deniedDomains) ==
    LET u == urlParse(rawURL)
        host == Hostname(u)
        domain == ToLower(host)
    IN  IF u.err THEN "invalid URL"
        ELSE IF u.Scheme \notin {<<"h", "t", "t", "p">>, <<"h", "t", "t", "p", "s">>}
        THEN "only http/https schemes are allowed"
        ELSE IF isPrivateHost(host)
        THEN "access to private/loopback addresses is denied"
        ELSE IF \E i \in 1..Len(deniedDomains) :
                   DomainMatches(ToLower(deniedDomains[i]), domain)
        THEN "domain is denied"
        ELSE IF Len(allowedDomains) > 0
                /\ ~\E i \in 1..Len(allowedDomains) :
                       DomainMatches(ToLower(allowedDomains[i]), domain)
        THEN "domain is not in allowed list"
        ELSE ""

(* The URLs the model asks for *)
URLs ==
    { <<>>,
      <<"h", "t", "t", "p", "s", ":", "/", "/", "o", "k", ".", "o", "r", "g">>,
      <<"H", "T", "T", "P", ":", "/", "/", "a", ".", "o", "k", ".", "o", "r", "g", ":", "8", "0", "8", "0", "/", "x">>,
      <<"h", "t", "t", "p", "s", ":", "/", "/", "e", "v", "i", "l", ".", "c", "o", "m", "/", "p", "a", "t", "h">>,
      <<"h", "t", "t", "p", "s", ":", "/", "/", "a", ".", "E", "V", "I", "L", ".", "c", "o", "m">>,
      <<"h", "t", "t", "p", "s", ":", "/", "/", "u", "@", "e", "v", "i", "l", ".", "c", "o", "m", "/">>,
      <<"h", "t", "t", "p", "s", ":", "/", "/", "n", "o", "t", "e", "v", "i", "l", ".", "c", "o", "m">>,
      <<"h", "t", "t", "p", ":", "/", "/", "L", "o", "c", "a", "l", "H", "o", "s", "t", ":", "8", "0", "8", "0", "/", "a", "d", "m", "i", "n">>,
      <<"h", "t", "t", "p", ":", "/", "/", "1", "9", "2", ".", "1", "6", "8", ".", "1", ".", "1", "/", "a", "d", "m", "i", "n">>,
      <<"h", "t", "t", "p", ":", "/", "/", "1", "2", "7", ".", "0", ".", "0", ".", "1">>,
      <<"h", "t", "t", "p", ":", "/", "/", "1", "6", "9", ".", "2", "5", "4", ".", "1", ".", "1">>,
      <<"h", "t", "t", "p", ":", "/", "/", "[", ":", ":", "1", "]", ":", "8", "0", "/">>,
      <<"h", "t", "t", "p", ":", "/", "/", "0", ".", "0", ".", "0", ".", "0", "/">>,
      <<"h", "t", "t", "p", ":", "/", "/", "8", ".", "8", ".", "8", ".", "8">>,
      <<"f", "i", "l", "e", ":", "/", "/", "/", "e", "t", "c", "/", "p", "a", "s", "s", "w", "d">>,
      <<"h", "t", "t", "p", ":", "/", "/", "a", " ", "b", "/">> }

(* The domain lists of the configurations the model starts from *)
DomainLists ==
    { [allowed |-> <<>>, denied |-> <<>>],
      [allowed |-> <<>>, denied |-> <<<<"E", "v", "i", "l", ".", "c", "o", "m">>>>],
      [allowed |-> <<<<"o", "k", ".", "o", "r", "g">>>>, denied |-> <<>>],
      [allowed |-> <<<<"O", "K", ".", "o", "r", "g">>, <<"e", "v", "i", "l", ".", "c", "o", "m">>>>, denied |-> <<<<"e", "v", "i", "l", ".", "c", "o", "m">>>>] }

Goroutines == {"g1", "g2"}
MaxTabs == 2
MaxPages == 3

(* The page ids a request may name: 0 stands for the empty page_id *)
PageIDs == 0..MaxPages

(* sync.Mutex.Lock returns only when nobody holds the mutex *)
MuFree_Always(mu) == TRUE

MuFree(mu) == mu = "none"

BrOk == [IsError |-> FALSE, Error |-> ""]
BrErr(e) == [IsError |-> TRUE, Error |-> e]

(* The call of goroutine g returns res *)
BrReturn(g, res) ==
    /\ brPc' = [brPc EXCEPT ![g] = "idle"]
    /\ brReq' = [brReq EXCEPT ![g] = NIL]
    /\ brLast' = res

(* Execute with action navigate up to t.mu.Lock, lines 105-107, 213-222 *)
BrNavigate(g, urls) ==
    /\ brPc[g] = "idle"
    /\ brNextID < MaxPages
    /\ \E url \in urls :
         LET params == [action |-> "navigate", url |-> url, page |-> 0]
             err == validateURL(url, brAllowed, brDenied)
         IN  IF url = <<>>
             THEN BrReturn(g, BrErr("url is required for navigate action"))
             ELSE IF err # ""
             THEN BrReturn(g, BrErr(err))
             ELSE /\ brPc' = [brPc EXCEPT ![g] = "lock"]
                  /\ brReq' = [brReq EXCEPT ![g] = params]
                  /\ brLast' = brLast
    /\ UNCHANGED <<brAllowed, brDenied, brPages, brNextID, brMu, brMinted, brBrowser, brLeaked, notBrVars>>

(* Execute with another action up to t.mu.Lock: the page_id is required,   *)
(* lines 108-124, 266-268, 411-415                                         *)
BrOther(g) ==
    /\ brPc[g] = "idle"
    /\ \E action \in {"get_content", "close", "reload"}, page \in PageIDs :
         LET params == [action |-> action, url |-> <<>>, page |-> page] IN
         IF action = "reload"
         THEN BrReturn(g, BrErr("unknown action"))
         ELSE IF page = 0
         THEN BrReturn(g, BrErr("page_id is required"))
         ELSE /\ brPc' = [brPc EXCEPT ![g] = "lock"]
              /\ brReq' = [brReq EXCEPT ![g] = params]
              /\ brLast' = brLast
    /\ UNCHANGED <<brAllowed, brDenied, brPages, brNextID, brMu, brMinted, brBrowser, brLeaked, notBrVars>>

(* t.mu.Lock(), lines 222, 256, 415 *)
BrLock(g) ==
    /\ brPc[g] = "lock"
    /\ MuFree(brMu)
    /\ brMu' = g
    /\ brPc' = [brPc EXCEPT ![g] = "locked"]
    /\ UNCHANGED <<brAllowed, brDenied, brPages, brNextID, brReq, brLast, brMinted,
                   brBrowser, brLeaked, notBrVars>>

(* navigate: the test of the tab limit, lines 225-227 *)
BrNavCheck(g) ==
    /\ brPc[g] = "locked"
    /\ brReq[g].action = "navigate"
    /\ IF Cardinality(brPages) >= MaxTabs
       THEN /\ BrReturn(g, BrErr("max tabs limit reached"))
            /\ brMu' = "none"
       ELSE /\ brPc' = [brPc EXCEPT ![g] = "open"]
            /\ UNCHANGED <<brReq, brLast, brMu>>
    /\ UNCHANGED <<brAllowed, brDenied, brPages, brNextID, brMinted, brBrowser, brLeaked, notBrVars>>

(* Pages the model lets stay open in the browser process without an id *)
MaxLeaked == 2

(* The page a failed WaitLoad leaves behind, lines 238-240: navigate       *)
(* returns without closing it                                              *)
AfterLoadError(leaked) == leaked + 1

(* navigate: the browser is launched unless one runs (ensureBrowser, lines *)
(* 127-145), the page opened and loaded, and the page registered under a   *)
(* new id, lines 229-253; each of the three calls to the browser may fail  *)
BrNavOpen(g) ==
    /\ brPc[g] = "open"
    /\ \E outcome \in {"ok", "failed to launch browser", "failed to open page",
                       "page load timeout"} :
         /\ outcome = "failed to launch browser" => ~brBrowser
         /\ outcome = "page load timeout" => brLeaked < MaxLeaked
         /\ brBrowser' = (brBrowser \/ outcome # "failed to launch browser")
         /\ brLeaked' = IF outcome = "page load timeout"
                        THEN AfterLoadError(brLeaked) ELSE brLeaked
         /\ IF outcome = "ok"
            THEN /\ brNextID' = brNextID + 1
                 /\ brPages' = brPages \cup {brNextID + 1}
                 /\ brMinted' = brMinted \cup {brNextID + 1}
                 /\ BrReturn(g, BrOk)
            ELSE /\ BrReturn(g, BrErr(outcome))
                 /\ UNCHANGED <<brNextID, brPages, brMinted>>
    /\ brMu' = "none"
    /\ UNCHANGED <<brAllowed, brDenied, notBrVars>>

(* getPage and the use of the page, lines 255-287: the page's script may   *)
(* fail                                                                    *)
BrGetContent(g) ==
    /\ brPc[g] = "locked"
    /\ brReq[g].action = "get_content"
    /\ IF brReq[g].page \notin brPages
       THEN BrReturn(g, BrErr("page not found"))
       ELSE \E e \in {"", "failed to get content"} :
               BrReturn(g, [IsError |-> e # "", Error |-> e])
    /\ brMu' = "none"
    /\ UNCHANGED <<brAllowed, brDenied, brPages, brNextID, brMinted, brBrowser, brLeaked, notBrVars>>

(* closePage under the mutex, lines 418-428 *)
BrClosePage(g) ==
    /\ brPc[g] = "locked"
    /\ brReq[g].action = "close"
    /\ IF brReq[g].page \notin brPages
       THEN /\ BrReturn(g, BrErr("page not found"))
            /\ brPages' = brPages
       ELSE /\ brPages' = brPages \ {brReq[g].page}
            /\ BrReturn(g, BrOk)
    /\ brMu' = "none"
    /\ UNCHANGED <<brAllowed, brDenied, brNextID, brMinted, brBrowser, brLeaked, notBrVars>>

(* Close, lines 432-447: under the mutex every page of the table is closed *)
(* and deleted, and the browser is closed with all its pages               *)
BrClose ==
    /\ MuFree(brMu)
    /\ brPages' = {}
    /\ brBrowser' = FALSE
    /\ brLeaked' = 0
    /\ UNCHANGED <<brAllowed, brDenied, brNextID, brMu, brPc, brReq, brLast, brMinted,
                   notBrVars>>

(* Two goroutines call the tool of a configuration without domain lists *)
ConcurrentURLs == {<<>>, <<"h", "t", "t", "p", "s", ":", "/", "/", "o", "k", ".", "o", "r", "g">>, <<"f", "i", "l", "e", ":", "/", "/", "/", "e", "t", "c", "/", "p", "a", "s", "s", "w", "d">>}

BrInit ==
    /\ notBrIdle
    /\ brAllowed = <<>>
    /\ brDenied = <<>>
    /\ brPages = {}
    /\ brNextID = 0
    /\ brMu = "none"
    /\ brPc = [g \in Goroutines |-> "idle"]
    /\ brReq = [g \in Goroutines |-> NIL]
    /\ brLast = NIL
    /\ brMinted = {}
    /\ brBrowser = FALSE
    /\ brLeaked = 0

BrNext ==
    \E g \in Goroutines :
       \/ BrNavigate(g, ConcurrentURLs)
       \/ BrOther(g)
       \/ BrLock(g)
       \/ BrNavCheck(g)
       \/ BrNavOpen(g)
       \/ BrGetContent(g)
       \/ BrClosePage(g)
       \/ BrClose

BrowserSpec == BrInit /\ [][BrNext]_vars

(* One goroutine calls the tool of each configuration with each URL *)
UrlInit ==
    /\ notBrIdle
    /\ \E l \in DomainLists : brAllowed = l.allowed /\ brDenied = l.denied
    /\ brPages = {}
    /\ brNextID = 0
    /\ brMu = "none"
    /\ brPc = [g \in Goroutines |-> "idle"]
    /\ brReq = [g \in Goroutines |-> NIL]
    /\ brLast = NIL
    /\ brMinted = {}
    /\ brBrowser = FALSE
    /\ brLeaked = 0

UrlNext ==
    \/ BrNavigate("g1", URLs)
    \/ BrOther("g1")
    \/ BrLock("g1")
    \/ BrNavCheck("g1")
    \/ BrNavOpen("g1")
    \/ BrGetContent("g1")
    \/ BrClosePage("g1")

UrlSpec == UrlInit /\ [][UrlNext]_vars

-----------------------------------------------------------------------------
(* The labels of a host name, compared without regard to case *)
EqualFold(a, b) ==
    Len(a) = Len(b) /\ \A i \in 1..Len(a) : ToLowerChar(a[i]) = ToLowerChar(b[i])

(* host is entry or a subdomain of entry: entry's labels end host's labels *)
IsDomainOrSubdomain(host, entry) ==
    LET h == SplitDots(host)
        e == SplitDots(entry)
    IN  /\ Len(e) <= Len(h)
        /\ \A i \in 1..Len(e) : EqualFold(h[Len(h) - Len(e) + i], e[i])

IsLocalhostAlias(host) ==
    \E alias \in {<<"l", "o", "c", "a", "l", "h", "o", "s", "t">>,
                  <<"i", "p", "6", "-", "l", "o", "c", "a", "l", "h", "o", "s", "t">>,
                  <<"i", "p", "6", "-", "l", "o", "o", "p", "b", "a", "c", "k">>} :
       EqualFold(host, alias)

IsForbiddenIP(host) ==
    LET ip == ParseIP(host) IN
    ip # <<>> /\ (\/ IsLoopback(ip) \/ IsPrivate(ip) \/ IsLinkLocalUnicast(ip)
                  \/ IsLinkLocalMulticast(ip) \/ IsUnspecified(ip))

(* A URL the navigate action may open under the two domain lists *)
Navigable(rawURL, allowed, denied) ==
    LET u == urlParse(rawURL)
        host == Hostname(u)
    IN  /\ u.Scheme \in {<<"h", "t", "t", "p">>, <<"h", "t", "t", "p", "s">>}
        /\ ~IsLocalhostAlias(host)
        /\ ~IsForbiddenIP(host)
        /\ \A i \in 1..Len(denied) : ~IsDomainOrSubdomain(host, denied[i])
        /\ Len(allowed) > 0 =>
             \E i \in 1..Len(allowed) : IsDomainOrSubdomain(host, allowed[i])

(* A navigate call that passed validateURL and is on its way to the page *)
Navigating(g) ==
    brPc[g] \in {"lock", "locked", "open"} /\ brReq[g].action = "navigate"

(* C24: navigate opens a page only for a URL whose scheme is http or       *)
(* https, whose host is neither a localhost alias nor a loopback, private, *)
(* link-local or unspecified IP, whose host is not a deny-list entry or a  *)
(* subdomain of one (whatever the case) and, when the allow-list is not    *)
(* empty, is an allow-list entry or a subdomain of one; a host on both     *)
(* lists is rejected.                                                      *)
C24_OnlyNavigableURLsOpen ==
    \A g \in Goroutines :
       Navigating(g) => Navigable(brReq[g].url, brAllowed, brDenied)

(* A page is about to open while both lists are in force *)
C24_Witness ==
    /\ brPc["g1"] = "open"
    /\ Len(brAllowed) > 0
    /\ Len(brDenied) > 0
    /\ Navigable(brReq["g1"].url, brAllowed, brDenied)

(* Goroutine g takes the step that ends its call *)
Returns(g) == brPc[g] # "idle" /\ brPc'[g] = "idle"

(* C25: whatever navigate and close calls run, also concurrently, at most  *)
(* max_tabs pages are live; a navigate that finds max_tabs pages live      *)
(* returns is_error = true with a "max tabs" message and adds no page;     *)
(* every successful navigate mints a page id never used before; any other  *)
(* action naming a page id that is not live returns is_error = true.       *)
C25_TabsBounded ==
    [][ /\ Cardinality(brPages') <= MaxTabs
        /\ \A g \in Goroutines :
             /\ (brPc[g] = "locked" /\ brReq[g].action = "navigate"
                 /\ Cardinality(brPages) >= MaxTabs /\ Returns(g))
                  => /\ brLast'.IsError
                     /\ brLast'.Error = "max tabs limit reached"
                     /\ brPages' = brPages
             /\ (brPc[g] = "open" /\ Returns(g) /\ ~brLast'.IsError)
                  => \E n \in brPages' :
                        /\ n \notin brMinted
                        /\ brPages' = brPages \cup {n}
             /\ (brPc[g] = "locked" /\ brReq[g].action # "navigate"
                 /\ brReq[g].page \notin brPages /\ Returns(g))
                  => brLast'.IsError /\ brPages' = brPages
      ]_vars

(* max_tabs pages are live, an id minted earlier is closed, and a          *)
(* navigate has just been turned away                                      *)
C25_Witness ==
    /\ Cardinality(brPages) = MaxTabs
    /\ brMinted \ brPages # {}
    /\ brLast # NIL
    /\ brLast.Error = "max tabs limit reached"

(* C39: every page opened in the browser process is registered under a    *)
(* page id or closed before navigate returns, so the pages open in the     *)
(* browser process never outnumber the live handles and never exceed       *)
(* max_tabs.                                                               *)
C39_PagesHaveHandles ==
    /\ Cardinality(brPages) + brLeaked <= Cardinality(brPages)
    /\ Cardinality(brPages) + brLeaked <= MaxTabs

(* Close leaves the page table empty and the browser handle released *)
CloseReleases ==
    [][BrClose => (brPages' = {} /\ ~brBrowser' /\ brLeaked' = 0)]_vars

-----------------------------------------------------------------------------
(***************************************************************************)
(* skill.SkillTool (src/internal/skill/skill_tool.go)                      *)
(***************************************************************************)

(* splitCommand, lines 126-147: parts so far, the token being built and    *)
(* whether a quote is open                                                 *)
RECURSIVE SplitFrom(_, _, _, _)
SplitFrom(cmd, parts, current, inQuote) ==
    IF cmd = <<>>
    THEN IF Len(current) > 0 THEN Append(parts, current) ELSE parts
    ELSE LET ch == Head(cmd) IN
         IF ch = "\"" \/ ch = "'"
         THEN SplitFrom(Tail(cmd), parts, current, ~inQuote)
         ELSE IF ch = " " /\ ~inQuote
         THEN IF Len(current) > 0
              THEN SplitFrom(Tail(cmd), Append(parts, current), <<>>, inQuote)
              ELSE SplitFrom(Tail(cmd), parts, current, inQuote)
         ELSE SplitFrom(Tail(cmd), parts, Append(current, ch), inQuote)

splitCommand(cmd) == SplitFrom(cmd, <<>>, <<>>, FALSE)

(* filepath.IsAbs on Unix *)
IsAbs(path) == HasPrefix(path, <<"/">>)

(* A variant that looks at the command text instead of its first token *)
validateSkillCommand_Text(cmd) ==
    IF Len(splitCommand(cmd)) = 0 THEN "empty command"
    ELSE IF IsAbs(cmd) THEN "absolute paths not allowed in skill command"
    ELSE IF Contains(cmd, <<".", ".">>)
    THEN "path traversal not allowed in skill command"
    ELSE ""

(* validateSkillCommand, lines 103-122: the error, "" for none *)
validateSkillCommand(cmd) ==
    LET parts == splitCommand(cmd) IN
    IF Len(parts) = 0 THEN "empty command"
    ELSE IF IsAbs(parts[1]) THEN "absolute paths not allowed in skill command"
    ELSE IF Contains(parts[1], <<".", ".">>)
    THEN "path traversal not allowed in skill command"
    ELSE ""

(* The commands of the manifests: up to MaxSkillWords words, each bare or  *)
(* in double or single quotes, with one blank between them                 *)
MaxSkillWords == 2
SkillWords ==
    {<<"p", "y">>, <<"/", "b", "i", "n", "/", "p", "y">>, <<".", ".", "/", "x">>, <<"a", ".", ".", "b">>, <<"r", "u", "n", ".", "s", "h">>, <<"a", " ", "b">>}
Quoted(w) == {w, <<"\"">> \o w \o <<"\"">>, <<"'">> \o w \o <<"'">>}
SkillTokens == UNION {Quoted(w) : w \in SkillWords}

RECURSIVE SkillCommands(_)
SkillCommands(n) ==
    IF n = 0 THEN {<<>>}
    ELSE LET shorter == SkillCommands(n - 1) IN
         shorter \cup {IF c = <<>> THEN t ELSE c \o <<" ">> \o t :
                          c \in shorter, t \in SkillTokens}

(* Execute, lines 54-99: the script may fail *)
SkExecute ==
    /\ skRes = NIL
    /\ \E cmd \in SkillCommands(MaxSkillWords) :
         LET err == validateSkillCommand(cmd)
             parts == splitCommand(cmd)
         IN  /\ skCmd' = cmd
             /\ IF skSandbox /\ err # ""
                THEN /\ skRes' = [IsError |-> TRUE,
                                  Error |-> "sandbox violation: " \o err]
                     /\ skSpawned' = <<>>
                ELSE IF Len(parts) = 0
                THEN /\ skRes' = [IsError |-> TRUE, Error |-> "skill command is empty"]
                     /\ skSpawned' = <<>>
                ELSE /\ skSpawned' = parts
                     /\ \E e \in {"", "exit status 1"} :
                          skRes' = [IsError |-> e # "", Error |-> e]
    /\ UNCHANGED <<skSandbox, notSkVars>>

SkInit ==
    /\ notSkIdle
    /\ skSandbox \in BOOLEAN
    /\ skCmd = <<>>
    /\ skRes = NIL
    /\ skSpawned = <<>>

SkNext == SkExecute

SkillSpec == SkInit /\ [][SkNext]_vars

SandboxViolations ==
    {"sandbox violation: absolute paths not allowed in skill command",
     "sandbox violation: path traversal not allowed in skill command"}

(* The first token of the command is an absolute path or holds ".." *)
ProgramEscapes(cmd) ==
    LET parts == splitCommand(cmd) IN
    Len(parts) > 0 /\ (IsAbs(parts[1]) \/ Contains(parts[1], <<".", ".">>))

(* C26: with the plugin sandbox enabled, a skill whose command's first     *)
(* token (quotes taken into account) is an absolute path or contains ".."  *)
(* is never spawned: Execute returns is_error = true with a sandbox        *)
(* violation; with the sandbox disabled the same command is run.           *)
C26_SandboxedSkills ==
    (skRes # NIL /\ ProgramEscapes(skCmd)) =>
       IF skSandbox
       THEN skSpawned = <<>> /\ skRes.IsError /\ skRes.Error \in SandboxViolations
       ELSE skSpawned = splitCommand(skCmd)

(* A quoted absolute program is turned away by the sandbox *)
C26_Witness ==
    /\ skSandbox
    /\ skRes # NIL
    /\ skCmd = <<"\"", "/", "b", "i", "n", "/", "p", "y", "\"", " ", "r", "u", "n", ".", "s", "h">>
    /\ skRes.Error \in SandboxViolations

-----------------------------------------------------------------------------
(***************************************************************************)
(* Error classification of the two providers: classifyOpenAIError          *)
(* (src/unnamed/part_006) and classifyAnthropicError                       *)
(* (src/internal/memory/sqlite.go).  The Type is NIL until the classifier  *)
(* is called, so an ErrorType is a record around its name.                 *)
(***************************************************************************)
ErrorType(name) == [Type |-> name]

(* classifyOpenAIError, lines 222-244 *)
classifyOpenAIError(msg) ==
    LET lower == ToLower(msg) IN
    IF Contains(lower, <<"4", "0", "1">>) \/ Contains(lower, <<"4", "0", "3">>)
       \/ Contains(lower, <<"u", "n", "a", "u", "t", "h", "o", "r", "i", "z", "e", "d">>)
    THEN ErrorType("Auth")
    ELSE IF Contains(lower, <<"4", "2", "9">>) \/ Contains(lower, <<"r", "a", "t", "e", " ", "l", "i", "m", "i", "t">>)
    THEN ErrorType("RateLimit")
    ELSE IF Contains(lower, <<"4", "0", "0">>) \/ Contains(lower, <<"i", "n", "v", "a", "l", "i", "d">>)
    THEN ErrorType("InvalidInput")
    ELSE IF Contains(lower, <<"5", "0", "0">>) \/ Contains(lower, <<"5", "0", "2">>)
            \/ Contains(lower, <<"5", "0", "3">>)
    THEN ErrorType("ServerError")
    ELSE IF Contains(lower, <<"t", "i", "m", "e", "o", "u", "t">>) \/ Contains(lower, <<"d", "e", "a", "d", "l", "i", "n", "e">>)
    THEN ErrorType("Timeout")
    ELSE IF Contains(lower, <<"c", "o", "n", "n", "e", "c", "t", "i", "o", "n">>) \/ Contains(lower, <<"d", "n", "s">>)
            \/ Contains(lower, <<"r", "e", "f", "u", "s", "e", "d">>)
    THEN ErrorType("Network")
    ELSE ErrorType("Unknown")

(* classifyAnthropicError, lines 362-382 *)
classifyAnthropicError(msg) ==
    LET lower == ToLower(msg) IN
    IF Contains(lower, <<"4", "0", "1">>) \/ Contains(lower, <<"a", "u", "t", "h", "e", "n", "t", "i", "c", "a", "t", "i", "o", "n">>)
    THEN ErrorType("Auth")
    ELSE IF Contains(lower, <<"4", "2", "9">>) \/ Contains(lower, <<"r", "a", "t", "e", "_", "l", "i", "m", "i", "t">>)
    THEN ErrorType("RateLimit")
    ELSE IF Contains(lower, <<"4", "0", "0">>) \/ Contains(lower, <<"i", "n", "v", "a", "l", "i", "d", "_", "r", "e", "q", "u", "e", "s", "t">>)
    THEN ErrorType("InvalidInput")
    ELSE IF Contains(lower, <<"5", "0", "0">>) \/ Contains(lower, <<"o", "v", "e", "r", "l", "o", "a", "d", "e", "d">>)
    THEN ErrorType("ServerError")
    ELSE IF Contains(lower, <<"t", "i", "m", "e", "o", "u", "t">>) \/ Contains(lower, <<"d", "e", "a", "d", "l", "i", "n", "e">>)
    THEN ErrorType("Timeout")
    ELSE ErrorType("Unknown")

(* The error messages: up to MaxFragments fragments with a blank between *)
MaxFragments == 2
Fragments ==
    {<<"4", "0", "1">>, <<"4", "0", "3">>, <<"U", "n", "a", "u", "t", "h", "o", "r", "i", "z", "e", "d">>, <<"a", "u", "t", "h", "e", "n", "t", "i", "c", "a", "t", "i", "o", "n", "_", "e", "r", "r", "o", "r">>, <<"4", "2", "9">>,
     <<"r", "a", "t", "e", " ", "l", "i", "m", "i", "t">>, <<"r", "a", "t", "e", "_", "l", "i", "m", "i", "t", "_", "e", "r", "r", "o", "r">>, <<"4", "0", "0">>, <<"i", "n", "v", "a", "l", "i", "d">>, <<"5", "0", "0">>,
     <<"5", "0", "3">>, <<"O", "v", "e", "r", "l", "o", "a", "d", "e", "d">>, <<"t", "i", "m", "e", "o", "u", "t">>, <<"d", "e", "a", "d", "l", "i", "n", "e">>, <<"c", "o", "n", "n", "e", "c", "t", "i", "o", "n">>,
     <<"d", "n", "s">>, <<"r", "e", "f", "u", "s", "e", "d">>, <<"E", "O", "F">>}

RECURSIVE ErrorMessages(_)
ErrorMessages(n) ==
    IF n = 1 THEN Fragments
    ELSE LET shorter == ErrorMessages(n - 1) IN
         shorter \cup {m \o <<" ">> \o f : m \in shorter, f \in Fragments}

(* The OpenAI-compatible provider classifies the error of a failed call,   *)
(* part_006 line 74                                                        *)
ClassifyOpenAI ==
    /\ clsOpenAI = NIL
    /\ \E msg \in ErrorMessages(MaxFragments) :
         /\ clsMsg \in {<<>>, msg}
         /\ clsMsg' = msg
         /\ clsOpenAI' = classifyOpenAIError(msg)
    /\ UNCHANGED <<clsAnthropic, notClsVars>>

(* The Anthropic provider classifies the error of a failed call,           *)
(* sqlite.go line 219                                                      *)
ClassifyAnthropic ==
    /\ clsAnthropic = NIL
    /\ \E msg \in ErrorMessages(MaxFragments) :
         /\ clsMsg \in {<<>>, msg}
         /\ clsMsg' = msg
         /\ clsAnthropic' = classifyAnthropicError(msg)
    /\ UNCHANGED <<clsOpenAI, notClsVars>>

ClsInit ==
    /\ notClsIdle
    /\ clsMsg = <<>>
    /\ clsOpenAI = NIL
    /\ clsAnthropic = NIL

ClsNext == ClassifyOpenAI \/ ClassifyAnthropic

ClassifySpec == ClsInit /\ [][ClsNext]_vars

(* A status code of the 5xx class occurs in the message *)
Has5xx(lower) ==
    \E i \in 1..(Len(lower) - 2) :
       lower[i] = "5" /\ lower[i + 1] \in Digits /\ lower[i + 2] \in Digits

(* The first rule, in the order of the list, whose code or keyword occurs *)
FirstRule(msg) ==
    LET lower == ToLower(msg) IN
    IF Contains(lower, <<"4", "0", "1">>) \/ Contains(lower, <<"4", "0", "3">>)
       \/ Contains(lower, <<"a", "u", "t", "h">>)
    THEN ErrorType("Auth")
    ELSE IF Contains(lower, <<"4", "2", "9">>) \/ Contains(lower, <<"r", "a", "t", "e", " ", "l", "i", "m", "i", "t">>)
    THEN ErrorType("RateLimit")
    ELSE IF Contains(lower, <<"4", "0", "0">>) \/ Contains(lower, <<"i", "n", "v", "a", "l", "i", "d">>)
    THEN ErrorType("InvalidInput")
    ELSE IF Has5xx(lower) \/ Contains(lower, <<"o", "v", "e", "r", "l", "o", "a", "d", "e", "d">>)
    THEN ErrorType("ServerError")
    ELSE IF Contains(lower, <<"t", "i", "m", "e", "o", "u", "t">>) \/ Contains(lower, <<"d", "e", "a", "d", "l", "i", "n", "e">>)
    THEN ErrorType("Timeout")
    ELSE IF Contains(lower, <<"c", "o", "n", "n", "e", "c", "t", "i", "o", "n">>) \/ Contains(lower, <<"d", "n", "s">>)
            \/ Contains(lower, <<"r", "e", "f", "u", "s", "e", "d">>)
    THEN ErrorType("Network")
    ELSE ErrorType("Unknown")

(* C27: both providers classify a message by the first rule, in this       *)
(* order, whose status code or keyword occurs in it: 401/403/"auth" Auth,  *)
(* 429/"rate limit" RateLimit, 400/"invalid" InvalidInput, 5xx/            *)
(* "overloaded" ServerError, "timeout"/"deadline" Timeout, "connection"/   *)
(* "dns"/"refused" Network, anything else Unknown; the same message gets   *)
(* the same type from both providers.                                      *)
C27_SameClassification ==
    /\ clsOpenAI # NIL => clsOpenAI = FirstRule(clsMsg)
    /\ clsAnthropic # NIL => clsAnthropic = FirstRule(clsMsg)
    /\ (clsOpenAI # NIL /\ clsAnthropic # NIL) => clsOpenAI = clsAnthropic

(* The two providers agree with each other, whatever the rule *)
C27_ProvidersAgree ==
    (clsOpenAI # NIL /\ clsAnthropic # NIL) => clsOpenAI = clsAnthropic

(* What both classifiers share: the order of the rules, and the codes      *)
(* 401, 429, 400 and 500 and the words timeout and deadline                *)
C27_SharedRules ==
    LET lower == ToLower(clsMsg)
        shared == IF Contains(lower, <<"4", "0", "1">>) THEN ErrorType("Auth")
                  ELSE IF Contains(lower, <<"4", "2", "9">>) THEN ErrorType("RateLimit")
                  ELSE IF Contains(lower, <<"4", "0", "0">>) THEN ErrorType("InvalidInput")
                  ELSE IF Contains(lower, <<"5", "0", "0">>) THEN ErrorType("ServerError")
                  ELSE ErrorType("Timeout")
    IN  (/\ clsOpenAI # NIL
         /\ clsAnthropic # NIL
         /\ \A f \in Fragments \ {<<"4", "0", "1">>, <<"4", "2", "9">>, <<"4", "0", "0">>, <<"5", "0", "0">>,
                                  <<"t", "i", "m", "e", "o", "u", "t">>, <<"d", "e", "a", "d", "l", "i", "n", "e">>} :
               ~Contains(clsMsg, f))
        => clsOpenAI = shared /\ clsAnthropic = shared

-----------------------------------------------------------------------------
(***************************************************************************)
(* security.KeyStore (src/internal/security/keyring.go): the OS keyring    *)
(* first, the encrypted vault file as the fallback.  The keyring may be    *)
(* unavailable at any call.                                                *)
(***************************************************************************)
SecretNames == {"llm_api_key", "telegram_token"}
SecretValues == {"sk-1", "sk-2"}

NoEntry == [present |-> FALSE, value |-> ""]
Entry(v) == [present |-> TRUE, value |-> v]
NoEntries == [n \in SecretNames |-> NoEntry]

(* loadVault, lines 78-101: a missing file is an empty vault; a file       *)
(* cannot be read without the encryption key                               *)
loadVault(vault, hasKey) ==
    IF ~vault.exists THEN [err |-> FALSE, entries |-> NoEntries]
    ELSE IF ~hasKey THEN [err |-> TRUE, entries |-> NoEntries]
    ELSE [err |-> FALSE, entries |-> vault.entries]

(* saveVault, lines 103-119 *)
saveVault(vault, hasKey, entries) ==
    IF ~hasKey THEN [err |-> TRUE, vault |-> vault]
    ELSE [err |-> FALSE, vault |-> [exists |-> TRUE, entries |-> entries]]

(* setInVault, lines 121-128 *)
setInVault(vault, hasKey, name, value) ==
    LET loaded == loadVault(vault, hasKey)
        entries == IF loaded.err THEN NoEntries ELSE loaded.entries
    IN  saveVault(vault, hasKey, [entries EXCEPT ![name] = Entry(value)])

(* getFromVault, lines 130-140 *)
getFromVault(vault, hasKey, name) ==
    LET loaded == loadVault(vault, hasKey) IN
    IF loaded.err \/ ~loaded.entries[name].present
    THEN [err |-> TRUE, value |-> ""]
    ELSE [err |-> FALSE, value |-> loaded.entries[name].value]

(* deleteFromVault, lines 142-149 *)
deleteFromVault(vault, hasKey, name) ==
    LET loaded == loadVault(vault, hasKey) IN
    IF loaded.err THEN [err |-> FALSE, vault |-> vault]
    ELSE saveVault(vault, hasKey, [loaded.entries EXCEPT ![name] = NoEntry])

(* KeyStore.Set, lines 41-50 *)
StoreSet(ring, vault, hasKey, name, value, ringUp) ==
    LET v == setInVault(vault, hasKey, name, value) IN
    IF ringUp
    THEN [err |-> FALSE, ring |-> [ring EXCEPT ![name] = Entry(value)],
          vault |-> vault, ringFailed |-> FALSE, vaultFailed |-> FALSE]
    ELSE [err |-> v.err, ring |-> ring, vault |-> v.vault,
          ringFailed |-> TRUE, vaultFailed |-> v.err]

(* KeyStore.Get, lines 52-61: the keyring also fails for a name it does    *)
(* not hold                                                                *)
StoreGet(ring, vault, hasKey, name, ringUp) ==
    IF ringUp /\ ring[name].present
    THEN [err |-> FALSE, value |-> ring[name].value]
    ELSE getFromVault(vault, hasKey, name)

(* KeyStore.Delete, lines 63-67: the keyring's error is dropped *)
StoreDelete(ring, vault, hasKey, name, ringUp) ==
    LET v == deleteFromVault(vault, hasKey, name) IN
    [err |-> v.err,
     ring |-> IF ringUp THEN [ring EXCEPT ![name] = NoEntry] ELSE ring,
     vault |-> v.vault]

KsSet ==
    \E name \in SecretNames, value \in SecretValues, ringUp \in BOOLEAN :
       LET r == StoreSet(ksRing, ksVault, ksHasKey, name, value, ringUp) IN
       /\ ksRing' = r.ring
       /\ ksVault' = r.vault
       /\ ksLive' = [ksLive EXCEPT ![name] = IF r.err THEN NoEntry ELSE Entry(value)]
       /\ ksGone' = ksGone \ {name}
       /\ ksLast' = [op |-> "set", name |-> name, value |-> value, err |-> r.err,
                     ringFailed |-> r.ringFailed, vaultFailed |-> r.vaultFailed]
       /\ UNCHANGED <<ksHasKey, notKsVars>>

KsGet ==
    \E name \in SecretNames, ringUp \in BOOLEAN :
       LET r == StoreGet(ksRing, ksVault, ksHasKey, name, ringUp) IN
       /\ ksLast' = [op |-> "get", name |-> name, value |-> r.value, err |-> r.err,
                     ringFailed |-> ~ringUp, vaultFailed |-> r.err]
       /\ UNCHANGED <<ksHasKey, ksRing, ksVault, ksLive, ksGone, notKsVars>>

KsDelete ==
    \E name \in SecretNames, ringUp \in BOOLEAN :
       LET r == StoreDelete(ksRing, ksVault, ksHasKey, name, ringUp) IN
       /\ ksRing' = r.ring
       /\ ksVault' = r.vault
       /\ ksLive' = [ksLive EXCEPT ![name] = NoEntry]
       /\ ksGone' = IF r.err THEN ksGone \ {name} ELSE ksGone \cup {name}
       /\ ksLast' = [op |-> "delete", name |-> name, value |-> "", err |-> r.err,
                     ringFailed |-> ~ringUp, vaultFailed |-> r.err]
       /\ UNCHANGED <<ksHasKey, notKsVars>>

KsInit ==
    /\ notKsIdle
    /\ ksHasKey \in BOOLEAN
    /\ ksRing = NoEntries
    /\ ksVault = [exists |-> FALSE, entries |-> NoEntries]
    /\ ksLive = NoEntries
    /\ ksLast = NIL
    /\ ksGone = {}

KsNext == KsSet \/ KsGet \/ KsDelete

KeyStoreSpec == KsInit /\ [][KsNext]_vars

(* C28: after Set(name, v) has returned without error, Get(name) returns v *)
(* until the next Set or Delete of that name, whichever backend served     *)
(* each call and whatever the availability of the keyring at each call;    *)
(* Set returns an error only when both the keyring and the vault fail.     *)
C28_SetThenGet ==
    ksLast # NIL =>
       /\ (ksLast.op = "get" /\ ksLive[ksLast.name].present)
            => ~ksLast.err /\ ksLast.value = ksLive[ksLast.name].value
       /\ (ksLast.op = "set" /\ ksLast.err)
            => ksLast.ringFailed /\ ksLast.vaultFailed

(* What holds whatever the keyring does: Set fails only when both backends *)
(* fail, and a Get served while the keyring is available and holds the     *)
(* name returns the keyring's value                                        *)
C28_SetErrorsOnlyWhenBothFail ==
    (ksLast # NIL /\ ksLast.op = "set" /\ ksLast.err)
       => ksLast.ringFailed /\ ksLast.vaultFailed

(* C40: after Delete(name) has returned without error, Get(name) fails     *)
(* until the next Set of that name, whichever backend held the secret and  *)
(* whatever the availability of the keyring during the Delete; and Delete  *)
(* returns without error whenever the secret has been removed from the     *)
(* keyring and was never stored in the vault file.                         *)
C40_DeleteThenGet ==
    ksLast # NIL =>
       /\ (ksLast.op = "get" /\ ksLast.name \in ksGone) => ksLast.err
       /\ (ksLast.op = "delete" /\ ~ksLast.ringFailed /\ ~ksVault.exists)
            => ~ksLast.err

(* The first half alone: a Get after a Delete without error fails *)
C40_GetAfterDeleteFails ==
    (ksLast # NIL /\ ksLast.op = "get" /\ ksLast.name \in ksGone) => ksLast.err

(* The second half alone: a Delete that reached the keyring and found no   *)
(* vault file returns without error                                        *)
C40_DeleteWithoutVaultSucceeds ==
    (ksLast # NIL /\ ksLast.op = "delete" /\ ~ksLast.ringFailed /\ ~ksVault.exists)
       => ~ksLast.err

-----------------------------------------------------------------------------
(***************************************************************************)
(* App.resolveSecrets, App.saveConfig and the Save... bindings             *)
(* (src/unnamed/part_000).  The key store is made by NewKeyStore(nil): it  *)
(* has no encryption key and finds no vault file.                          *)
(***************************************************************************)
keyringPlaceholder == "[keyring]"
secretNameLLMKey == "llm_api_key"
secretNameTelegramToken == "telegram_token"

NoVault == [exists |-> FALSE, entries |-> NoEntries]
APIKeys == {"sk-1", "sk-2"}
Tokens29 == {"tk-1"}

(* A variant that writes the value as it is *)
DiskValue_Plain(v) == v

(* What saveConfig writes for a secret, lines 575-581 *)
DiskValue(v) == IF v # "" THEN keyringPlaceholder ELSE v

(* The value must go to the key store before the file is written,          *)
(* lines 560 and 566                                                       *)
NeedsStore(v) == v # "" /\ v # keyringPlaceholder

(* saveConfig, lines 552-585, for the availability of the keyring at each  *)
(* Set and the success of the write: "again" when it calls itself          *)
saveConfig(cfg, disk, ring, hasStore, up1, up2, diskOk) ==
    LET r1 == IF NeedsStore(cfg.apiKey)
              THEN StoreSet(ring, NoVault, FALSE, secretNameLLMKey, cfg.apiKey, up1)
              ELSE [err |-> FALSE, ring |-> ring]
        r2 == IF cfg.tg /\ NeedsStore(cfg.token)
              THEN StoreSet(r1.ring, NoVault, FALSE, secretNameTelegramToken,
                            cfg.token, up2)
              ELSE [err |-> FALSE, ring |-> r1.ring]
        cfgForDisk == [apiKey |-> DiskValue(cfg.apiKey), tg |-> cfg.tg,
                       token |-> IF cfg.tg THEN DiskValue(cfg.token) ELSE cfg.token]
    IN  IF ~hasStore THEN [out |-> "again", ring |-> ring, disk |-> disk]
        ELSE IF r1.err THEN [out |-> "again", ring |-> ring, disk |-> disk]
        ELSE IF r2.err THEN [out |-> "again", ring |-> r1.ring, disk |-> disk]
        ELSE IF diskOk THEN [out |-> "ok", ring |-> r2.ring, disk |-> cfgForDisk]
        ELSE [out |-> "error", ring |-> r2.ring, disk |-> disk]

(* The state after a call of saveConfig on cfg *)
Saved(cfg, ring, up1, up2, diskOk) ==
    LET s == saveConfig(cfg, appDisk, ring, appKeyStore, up1, up2, diskOk) IN
    /\ appCfg' = cfg
    /\ appRing' = s.ring
    /\ appDisk' = s.disk
    /\ appPc' = IF s.out = "again" THEN "saving" ELSE "ready"
    /\ appLast' = IF s.out = "again" THEN NIL
                  ELSE [ok |-> s.out = "ok", before |-> cfg]

(* startup, lines 336-347: the file is loaded and resolveSecrets, lines    *)
(* 503-549, reads the secrets of a file with placeholders or moves the     *)
(* secrets of a file with plain values to the key store                    *)
AppStartup ==
    /\ appPc = "boot"
    /\ \E up1 \in BOOLEAN, up2 \in BOOLEAN, up3 \in BOOLEAN, up4 \in BOOLEAN,
          diskOk \in BOOLEAN :
         LET g1 == StoreGet(appRing, NoVault, FALSE, secretNameLLMKey, up1)
             s1 == StoreSet(appRing, NoVault, FALSE, secretNameLLMKey,
                            appDisk.apiKey, up1)
             key == IF appDisk.apiKey = keyringPlaceholder /\ ~g1.err
                    THEN g1.value ELSE appDisk.apiKey
             moved1 == NeedsStore(appDisk.apiKey) /\ ~s1.err
             ring1 == IF moved1 THEN s1.ring ELSE appRing
             g2 == StoreGet(ring1, NoVault, FALSE, secretNameTelegramToken, up2)
             s2 == StoreSet(ring1, NoVault, FALSE, secretNameTelegramToken,
                            appDisk.token, up2)
             token == IF appDisk.tg /\ appDisk.token = keyringPlaceholder /\ ~g2.err
                      THEN g2.value ELSE appDisk.token
             moved2 == appDisk.tg /\ NeedsStore(appDisk.token) /\ ~s2.err
             ring2 == IF moved2 THEN s2.ring ELSE ring1
             cfg == [apiKey |-> key, tg |-> appDisk.tg, token |-> token]
         IN  IF appKeyStore /\ (moved1 \/ moved2)
             THEN Saved(cfg, ring2, up3, up4, diskOk)
             ELSE /\ appCfg' = IF appKeyStore THEN cfg ELSE appDisk
                  /\ appRing' = appRing
                  /\ appPc' = "ready"
                  /\ UNCHANGED <<appDisk, appLast>>
    /\ UNCHANGED <<appKeyStore, notAppVars>>

(* SaveLLMConfig, lines 645-660 *)
SaveLLMConfig ==
    /\ appPc = "ready"
    /\ \E apiKey \in APIKeys \cup {""}, up1 \in BOOLEAN, up2 \in BOOLEAN,
          diskOk \in BOOLEAN :
         Saved([appCfg EXCEPT !.apiKey = apiKey], appRing, up1, up2, diskOk)
    /\ UNCHANGED <<appKeyStore, notAppVars>>

(* SaveTelegramConfig, lines 662-671 *)
SaveTelegramConfig ==
    /\ appPc = "ready"
    /\ \E token \in Tokens29 \cup {""}, up1 \in BOOLEAN, up2 \in BOOLEAN,
          diskOk \in BOOLEAN :
         Saved([appCfg EXCEPT !.tg = TRUE, !.token = token], appRing, up1, up2,
               diskOk)
    /\ UNCHANGED <<appKeyStore, notAppVars>>

(* SaveSecurityConfig and the other bindings that leave the secrets        *)
(* alone, lines 673-698, 760-796                                           *)
SaveOtherConfig ==
    /\ appPc = "ready"
    /\ \E up1 \in BOOLEAN, up2 \in BOOLEAN, diskOk \in BOOLEAN :
         Saved(appCfg, appRing, up1, up2, diskOk)
    /\ UNCHANGED <<appKeyStore, notAppVars>>

(* saveConfig has called itself, lines 556, 563 and 569: the inner call    *)
(* starts afresh                                                           *)
SaveConfigAgain ==
    /\ appPc = "saving"
    /\ \E up1 \in BOOLEAN, up2 \in BOOLEAN, diskOk \in BOOLEAN :
         Saved(appCfg, appRing, up1, up2, diskOk)
    /\ UNCHANGED <<appKeyStore, notAppVars>>

(* saveConfig calling itself without end exhausts the goroutine's stack *)
StackOverflow ==
    /\ appPc = "saving"
    /\ appPc' = "crashed"
    /\ UNCHANGED <<appKeyStore, appCfg, appDisk, appRing, appLast, notAppVars>>

(* The files a start may find: no secrets, plain secrets, or placeholders  *)
(* whose secrets an earlier run put in the keyring                         *)
AppInit ==
    /\ notAppIdle
    /\ appKeyStore \in BOOLEAN
    /\ appCfg = [apiKey |-> "", tg |-> FALSE, token |-> ""]
    /\ \E k \in {"", "sk-1", keyringPlaceholder},
          t \in {"none", "", "tk-1", keyringPlaceholder} :
         /\ appDisk = [apiKey |-> k, tg |-> t # "none",
                       token |-> IF t = "none" THEN "" ELSE t]
         /\ appRing =
              [n \in SecretNames |->
                 IF n = secretNameLLMKey /\ k = keyringPlaceholder THEN Entry("sk-1")
                 ELSE IF n = secretNameTelegramToken /\ t = keyringPlaceholder
                 THEN Entry("tk-1")
                 ELSE NoEntry]
    /\ appPc = "boot"
    /\ appLast = NIL

AppNext ==
    \/ AppStartup
    \/ SaveLLMConfig
    \/ SaveTelegramConfig
    \/ SaveOtherConfig
    \/ SaveConfigAgain
    \/ StackOverflow

AppSpec == AppInit /\ [][AppNext]_vars

MaxInbound == 3

(* part_004 line 77: ChatID is the decimal text of the Telegram chat id *)
TelegramChats == {"101", "102"}

(* part_000 line 757: the GUI always talks in the chat "gui" *)
GuiChatID == "gui"

TurnIDs == 1..Len(tnTurns)

(* The turns that have entered processMessage and not yet returned *)
InProgress(t) == tnTurns[t].pc \in {"history", "saved"}

(* part_003 line 16, sqlite.go GetHistory: the rows of one chat, in order *)
TnHistory(c) == SelectSeq(tnStore, LAMBDA m : m.chat = c)

(* part_003 lines 14-40: processMessage is entered and reads the history *)
BeginTurn(c, via) ==
    tnTurns' = Append(tnTurns, [chat |-> c, via |-> via, pc |-> "history"])

(* part_003 lines 72-73, 80-91: processMessage returns; on the GUI path   *)
(* the await in sendMessage then resolves and sending becomes false        *)
TnReturn(t) ==
    /\ tnTurns' = [tnTurns EXCEPT ![t].pc = "returned"]
    /\ tnSending' = IF tnTurns[t].via = "gui" THEN FALSE ELSE tnSending

(* part_004 lines 62-86, agent.go 58-62, 69-72: an update with text: the   *)
(* OnText handler calls the agent's callback, which calls handleMessage    *)
TnOnText ==
    /\ Len(tnTurns) < MaxInbound
    /\ \E c \in TelegramChats : BeginTurn(c, "telegram")
    /\ UNCHANGED <<tnStore, tnSending, notTnVars>>

(* part_010 lines 58-65, part_000 lines 743-757: the Dashboard sends a     *)
(* message unless one is being sent; SendMessage calls HandleDirectMessage *)
TnSendMessage ==
    /\ Len(tnTurns) < MaxInbound
    /\ ~tnSending
    /\ tnSending' = TRUE
    /\ BeginTurn(GuiChatID, "gui")
    /\ UNCHANGED <<tnStore, notTnVars>>

(* part_003 line 43: SaveMessage of the user message *)
TnSaveUser ==
    \E t \in TurnIDs :
       /\ tnTurns[t].pc = "history"
       /\ tnTurns' = [tnTurns EXCEPT ![t].pc = "saved"]
       /\ tnStore' = Append(tnStore, [chat |-> tnTurns[t].chat,
                                      role |-> "user", turn |-> t])
       /\ UNCHANGED <<tnSending, notTnVars>>

(* part_003 lines 78-82 and 86-91: the final answer, or the message of the *)
(* exhausted tool budget, is stored as the assistant message and returned  *)
TnSaveAssistant ==
    \E t \in TurnIDs :
       /\ tnTurns[t].pc = "saved"
       /\ tnStore' = Append(tnStore, [chat |-> tnTurns[t].chat,
                                      role |-> "assistant", turn |-> t])
       /\ TnReturn(t)
       /\ UNCHANGED notTnVars

(* part_003 lines 72-74: Chat fails: the turn returns the error and stores *)
(* no assistant message                                                    *)
TnChatError ==
    \E t \in TurnIDs :
       /\ tnTurns[t].pc = "saved"
       /\ TnReturn(t)
       /\ UNCHANGED <<tnStore, notTnVars>>

TnInit ==
    /\ notTnIdle
    /\ tnTurns = <<>>
    /\ tnStore = <<>>
    /\ tnSending = FALSE

TnNext ==
    \/ TnOnText
    \/ TnSendMessage
    \/ TnSaveUser
    \/ TnSaveAssistant
    \/ TnChatError

TurnSpec == TnInit /\ [][TnNext]_vars

(* C30: for a given chat at most one turn is in progress at any time: a    *)
(* second inbound message for the same chat, from a channel handler or     *)
(* from the GUI, does not start its turn until the first has returned, so  *)
(* each stored assistant message directly follows the user message of its  *)
(* own turn.                                                               *)
OneTurnPerChat ==
    \A t, u \in TurnIDs :
       (t # u /\ InProgress(t) /\ InProgress(u))
          => tnTurns[t].chat # tnTurns[u].chat

AssistantFollowsOwnUser ==
    \A c \in TelegramChats \cup {GuiChatID} :
       LET h == TnHistory(c)
       IN  \A i \in 1..Len(h) :
              h[i].role = "assistant"
                 => /\ i > 1
                    /\ h[i - 1].role = "user"
                    /\ h[i - 1].turn = h[i].turn

C30_OneTurnPerChat == OneTurnPerChat /\ AssistantFollowsOwnUser

(* What the code does keep: the GUI chat has one turn at a time, and the   *)
(* turns of different chats never mix in one chat's history                *)
C30_GuiSequential ==
    /\ \A t, u \in TurnIDs :
          (t # u /\ InProgress(t) /\ InProgress(u))
             => ~(tnTurns[t].via = "gui" /\ tnTurns[u].via = "gui")
    /\ \A i \in 1..Len(tnStore) : tnStore[i].chat = tnTurns[tnStore[i].turn].chat

(***************************************************************************)
(* The agent loop and its context.  part_003 lines 44-129, shell.go lines  *)
(* 147-200, filesystem.go lines 48-75.  processMessage never reads ctx     *)
(* itself: it hands it to provider.Chat and to Tool.Execute.  The          *)
(* providers send their requests with ctx and the shell runs its command   *)
(* with exec.CommandContext, so both fail once ctx is done;                *)
(* FilesystemTool.Execute does not use ctx at all.                         *)
(***************************************************************************)
CxTools == {"shell", "filesystem"}

(* shell.go line 181: exec.CommandContext; filesystem.go lines 48-75: ctx *)
(* is not read                                                             *)
HonoursContext(name) == name = "shell"

(* The tool calls one response can carry *)
CxResponses == {<<"shell">>, <<"filesystem">>, <<"shell", "filesystem">>,
                <<"filesystem", "shell">>, <<"ghost", "filesystem">>,
                <<"shell", "ghost">>}

CxReturn(err, stored) ==
    /\ cxPc' = "returned"
    /\ cxOut' = [err |-> err, stored |-> stored]
    /\ cxCalls' = <<>>

(* part_003 lines 14-46: processMessage stores the user message and enters *)
(* the loop                                                                *)
CxStart ==
    /\ cxPc = "idle"
    /\ cxPc' = "chat"
    /\ UNCHANGED <<cxCancelled, cxCalls, cxCount, cxRan, cxResults, cxOut,
                   notCxVars>>

(* The owner of the context cancels it while the turn is running *)
CxCancel ==
    /\ cxPc \notin {"idle", "returned"}
    /\ ~cxCancelled
    /\ cxCancelled' = TRUE
    /\ UNCHANGED <<cxPc, cxCalls, cxCount, cxRan, cxResults, cxOut, notCxVars>>

(* part_003 lines 70-73: provider.Chat(ctx, req) is called; with ctx done *)
(* the request is not sent and Chat returns the context's error           *)
CxChatBegin ==
    /\ cxPc = "chat"
    /\ IF cxCancelled
       THEN CxReturn(TRUE, FALSE)
       ELSE cxPc' = "inchat" /\ UNCHANGED <<cxCalls, cxOut>>
    /\ UNCHANGED <<cxCancelled, cxCount, cxRan, cxResults, notCxVars>>

(* part_003 lines 70-97: Chat returns: an error (always, once ctx is done), *)
(* a final answer, or tool calls within or beyond the budget                *)
CxChatEnd ==
    /\ cxPc = "inchat"
    /\ \/ CxReturn(TRUE, FALSE) /\ UNCHANGED cxCount
       \/ ~cxCancelled /\ CxReturn(FALSE, TRUE) /\ UNCHANGED cxCount
       \/ /\ ~cxCancelled
          /\ \E calls \in CxResponses :
                /\ cxCount' = cxCount + Len(calls)
                /\ IF BudgetExceeded(cxCount + Len(calls))
                   THEN CxReturn(FALSE, TRUE)
                   ELSE /\ cxPc' = "act"
                        /\ cxCalls' = calls
                        /\ UNCHANGED cxOut
    /\ UNCHANGED <<cxCancelled, cxRan, cxResults, notCxVars>>

(* part_003 lines 101-127: the tool call loop moves to the next call, or *)
(* back to the head of the agent loop after the last                      *)
CxAdvance(content) ==
    /\ cxResults' = Append(cxResults, content)
    /\ cxCalls' = Tail(cxCalls)
    /\ cxPc' = IF Len(cxCalls) = 1 THEN "chat" ELSE "act"

(* part_003 lines 104-110: t.Execute(ctx, tc.Arguments) is called for the *)
(* next tool call, unless the registry does not know the name.  With ctx   *)
(* done, a tool that runs under ctx returns the context's error at once;   *)
(* one that does not read ctx does its work.                               *)
CxExecBegin ==
    /\ cxPc = "act"
    /\ LET name == Head(cxCalls)
       IN  IF name \notin CxTools
           THEN CxAdvance("not found") /\ UNCHANGED cxRan
           ELSE IF cxCancelled
           THEN /\ CxAdvance(IF HonoursContext(name) THEN "context canceled"
                             ELSE "output")
                /\ cxRan' = IF HonoursContext(name) THEN cxRan
                            ELSE cxRan \cup {name}
           ELSE /\ cxPc' = "intool"
                /\ UNCHANGED <<cxCalls, cxRan, cxResults>>
    /\ UNCHANGED <<cxCancelled, cxCount, cxOut, notCxVars>>

(* part_003 lines 110-126: Execute returns (killed, failed or complete) and *)
(* its result is appended as the tool message                               *)
CxExecEnd ==
    /\ cxPc = "intool"
    /\ IF cxCancelled /\ HonoursContext(Head(cxCalls))
       THEN CxAdvance("signal: killed")
       ELSE \E r \in {"output", "is_error"} : CxAdvance(r)
    /\ UNCHANGED <<cxCancelled, cxCount, cxRan, cxOut, notCxVars>>

CxInit ==
    /\ notCxIdle
    /\ cxPc = "idle"
    /\ cxCancelled = FALSE
    /\ cxCalls = <<>>
    /\ cxCount = 0
    /\ cxRan = {}
    /\ cxResults = <<>>
    /\ cxOut = NIL

CxNext ==
    \/ CxStart
    \/ CxCancel
    \/ CxChatBegin
    \/ CxChatEnd
    \/ CxExecBegin
    \/ CxExecEnd

CancelSpec == CxInit /\ [][CxNext]_vars

(* C31: after the turn's context is cancelled the loop ends at the next     *)
(* provider or tool call boundary: no tool execution and no provider call   *)
(* starts after the one in progress at the cancellation, the turn returns   *)
(* an error, and no assistant message is stored for it.                     *)
C31_ReturnsError ==
    (cxCancelled /\ cxOut # NIL) => (cxOut.err /\ ~cxOut.stored)

C31_CancelEndsTurn ==
    /\ cxRan = {}
    /\ C31_ReturnsError

(***************************************************************************)
(* Agent.handleMessage.  agent.go lines 58-95, part_003 lines 66-97,       *)
(* manager.go lines 24-29 and 62-68.  The callback registered by Start     *)
(* publishes the inbound message and calls handleMessage, which runs the   *)
(* turn, replaces a failed turn's response with a fixed text, publishes    *)
(* the error, looks the channel up by name and sends the response once.    *)
(***************************************************************************)
MaxLegs == 2

(* manager.go lines 24-29: the channels registered with the manager, by name *)
HmChannels == {"telegram", "console"}
HmChats == {"101", "102"}

ErrorReply ==
    "Sorry, I encountered an error processing your message. Please try again."

(* part_003 lines 72-73, 80-81, 88-90: what processMessage returns next *)
(* to its error                                                           *)
HmResponses(err) ==
    IF err THEN {""}
    ELSE {"Hi there!", "I've reached the maximum number of tool calls"}

(* A variant of handleResponse that keeps the response of a failed turn *)
handleResponse_KeepsEmpty(err, response) == response

(* agent.go lines 72-77: the text handleMessage sends back *)
handleResponse(err, response) == IF err THEN ErrorReply ELSE response

(* agent.go lines 58-62, 69-72: an inbound message reaches the callback *)
HmInbound ==
    /\ hmPc \in {"idle", "done"}
    /\ \E ch \in HmChannels, c \in HmChats : hmMsg' = [channel |-> ch, chat |-> c]
    /\ hmEvents' = <<"inbound_message">>
    /\ hmSends' = <<>>
    /\ hmLegs' = 0
    /\ hmErr' = FALSE
    /\ hmPc' = "process"
    /\ UNCHANGED notHmVars

(* part_003 lines 66-97: one provider call of the turn: it fails, answers, *)
(* or asks for tools (which are run and the loop repeats)                   *)
HmChat ==
    /\ hmPc = "process"
    /\ hmLegs' = hmLegs + 1
    /\ \/ /\ hmEvents' = hmEvents \o <<"llm_request">>
          /\ hmErr' = TRUE
          /\ hmPc' = "failed"
       \/ /\ hmEvents' = hmEvents \o <<"llm_request", "llm_response">>
          /\ hmPc' = "respond"
          /\ UNCHANGED hmErr
       \/ /\ hmLegs < MaxLegs
          /\ hmEvents' = hmEvents \o <<"llm_request", "llm_response",
                                       "tool_call", "tool_result">>
          /\ UNCHANGED <<hmPc, hmErr>>
    /\ UNCHANGED <<hmMsg, hmSends, notHmVars>>

(* agent.go lines 73-77: the error is logged and published *)
HmPublishError ==
    /\ hmPc = "failed"
    /\ hmEvents' = Append(hmEvents, "error")
    /\ hmPc' = "respond"
    /\ UNCHANGED <<hmMsg, hmSends, hmLegs, hmErr, notHmVars>>

(* agent.go lines 79-94: the channel is found by its name, the outbound   *)
(* message is published and sent; a failing Send is logged                *)
HmSend ==
    /\ hmPc = "respond"
    /\ hmMsg.channel \in HmChannels
    /\ hmEvents' = Append(hmEvents, "outbound_message")
    /\ \E sendErr \in BOOLEAN, response \in HmResponses(hmErr) :
          hmSends' = Append(hmSends,
                        [channel |-> hmMsg.channel, chat |-> hmMsg.chat,
                         text |-> handleResponse(hmErr, response),
                         err |-> sendErr])
    /\ hmPc' = "done"
    /\ UNCHANGED <<hmMsg, hmLegs, hmErr, notHmVars>>

HmInit ==
    /\ notHmIdle
    /\ hmPc = "idle"
    /\ hmMsg = NIL
    /\ hmEvents = <<>>
    /\ hmSends = <<>>
    /\ hmLegs = 0
    /\ hmErr = FALSE

HmNext ==
    \/ HmInbound
    \/ HmChat
    \/ HmPublishError
    \/ HmSend

HandleSpec == HmInit /\ [][HmNext]_vars

HmCount(topic) == Len(SelectSeq(hmEvents, LAMBDA e : e = topic))

HmLastIs(topics) ==
    /\ Len(hmEvents) >= Len(topics)
    /\ SubSeq(hmEvents, Len(hmEvents) - Len(topics) + 1, Len(hmEvents)) = topics

(* C32: a channel message whose turn fails with a provider error gets one  *)
(* event on the error topic and then exactly one outbound message with the *)
(* fixed apology on the originating channel and chat, with no further      *)
(* provider call; a failing Send neither raises nor is retried.            *)
C32_FailedTurnApologizes ==
    /\ hmErr => /\ hmLegs = HmCount("llm_request")
                /\ hmEvents[Len(hmEvents)] # "llm_request" => HmCount("error") = 1
    /\ (hmPc = "done" /\ hmErr) =>
          /\ HmLastIs(<<"llm_request", "error", "outbound_message">>)
          /\ HmCount("error") = 1
          /\ Len(hmSends) = 1
          /\ hmSends[1].channel = hmMsg.channel
          /\ hmSends[1].chat = hmMsg.chat
          /\ hmSends[1].text = ErrorReply
    /\ ~hmErr => HmCount("error") = 0

(* A failed turn has been answered and the Send itself failed *)
C32_Witness ==
    /\ hmPc = "done"
    /\ hmErr
    /\ hmLegs = 2
    /\ hmSends[1].err

(***************************************************************************)
(* tool.Registry.  part_000 lines 890-952.  A map from Tool.Name() to the  *)
(* tool, guarded by a read-write mutex; List and Definitions range over    *)
(* the map, whose iteration order Go leaves unspecified.                   *)
(***************************************************************************)
ToolNames == {"shell", "browser", "filesystem"}

(* Two tools can answer to the same name: [name, id] is one tool value *)
ToolValues == [name : ToolNames, id : {1, 2}]

(* A variant of MapPut that keeps the entry a key already has *)
MapPut_KeepsFirst(m, k, v) ==
    [x \in DOMAIN m \cup {k} |-> IF x \in DOMAIN m THEN m[x] ELSE v]

(* part_000 line 907: r.tools[t.Name()] = t *)
MapPut(m, k, v) == [x \in DOMAIN m \cup {k} |-> IF x = k THEN v ELSE m[x]]

(* part_000 line 914: delete(r.tools, name) *)
MapDelete(m, k) == [x \in DOMAIN m \ {k} |-> m[x]]

(* part_000 lines 933-935, 944-950: the orders in which range can visit *)
(* the keys of a map                                                    *)
RangeOrders(m) ==
    {o \in [1..Cardinality(DOMAIN m) -> DOMAIN m] :
        \A i, j \in DOMAIN o : i # j => o[i] # o[j]}

(* The history of a name after one more operation on it: the operation, *)
(* the tool it registered and the tool registered before it              *)
Noted(h, name, op, t) ==
    [x \in DOMAIN h \cup {name} |->
        IF x # name THEN h[x]
        ELSE [op |-> op, tool |-> t,
              old |-> IF name \notin DOMAIN h THEN NIL
                      ELSE IF h[name].op = "register" THEN h[name].tool
                      ELSE h[name].old]]

(* part_000 lines 904-909 *)
RgRegister ==
    \E t \in ToolValues :
       /\ rgTools' = MapPut(rgTools, t.name, t)
       /\ rgLast' = Noted(rgLast, t.name, "register", t)
       /\ rgRet' = NIL
       /\ UNCHANGED notRgVars

(* part_000 lines 911-916 *)
RgUnregister ==
    \E name \in ToolNames :
       /\ rgTools' = MapDelete(rgTools, name)
       /\ rgLast' = Noted(rgLast, name, "unregister", NIL)
       /\ rgRet' = NIL
       /\ UNCHANGED notRgVars

(* part_000 lines 918-927 *)
RgGet ==
    \E name \in ToolNames :
       /\ rgRet' = IF name \in DOMAIN rgTools
                   THEN [op |-> "get", name |-> name, err |-> FALSE,
                         tool |-> rgTools[name]]
                   ELSE [op |-> "get", name |-> name, err |-> TRUE,
                         tool |-> NIL]
       /\ UNCHANGED <<rgTools, rgLast, notRgVars>>

(* part_000 lines 929-938 *)
RgList ==
    \E o \in RangeOrders(rgTools) :
       /\ rgRet' = [op |-> "list",
                    items |-> [i \in DOMAIN o |-> rgTools[o[i]]]]
       /\ UNCHANGED <<rgTools, rgLast, notRgVars>>

(* part_000 lines 940-952: the Name() of each tool in the table *)
RgDefinitions ==
    \E o \in RangeOrders(rgTools) :
       /\ rgRet' = [op |-> "definitions",
                    items |-> [i \in DOMAIN o |-> rgTools[o[i]].name]]
       /\ UNCHANGED <<rgTools, rgLast, notRgVars>>

RgInit ==
    /\ notRgIdle
    /\ rgTools = <<>>
    /\ rgLast = <<>>
    /\ rgRet = NIL

RgNext ==
    \/ RgRegister
    \/ RgUnregister
    \/ RgGet
    \/ RgList
    \/ RgDefinitions

RegistrySpec == RgInit /\ [][RgNext]_vars

(* The names whose last operation was a Register *)
RegisteredNow ==
    {n \in DOMAIN rgLast : rgLast[n].op = "register"}

(* C33: after any sequence of Register and Unregister calls, Get(name)     *)
(* succeeds exactly when the last operation on that name was a Register    *)
(* and then returns the most recently registered tool of that name; List   *)
(* and Definitions each return exactly one entry per registered name.      *)
C33_RegistryTable ==
    rgRet # NIL =>
       /\ rgRet.op = "get" =>
             /\ ~rgRet.err <=> rgRet.name \in RegisteredNow
             /\ ~rgRet.err => rgRet.tool = rgLast[rgRet.name].tool
       /\ rgRet.op = "list" =>
             /\ Len(rgRet.items) = Cardinality(RegisteredNow)
             /\ \A n \in RegisteredNow :
                   \E i \in DOMAIN rgRet.items : rgRet.items[i] = rgLast[n].tool
       /\ rgRet.op = "definitions" =>
             /\ Len(rgRet.items) = Cardinality(RegisteredNow)
             /\ \A n \in RegisteredNow :
                   \E i \in DOMAIN rgRet.items : rgRet.items[i] = n

(* Get returns the tool registered last under a name that held another tool *)
(* before, while another name has been unregistered                         *)
C33_Witness ==
    /\ rgRet # NIL
    /\ rgRet.op = "get"
    /\ ~rgRet.err
    /\ rgLast[rgRet.name].old \notin {NIL, rgRet.tool}
    /\ \E n \in DOMAIN rgLast : rgLast[n].op = "unregister"

(***************************************************************************)
(* eventbus.Bus.  bus.go lines 8-44.  handlers maps a topic to the slice   *)
(* of its handlers.  Publish copies the topic's slice under the read lock  *)
(* and then calls the copies one after the other; Subscribe appends under  *)
(* the write lock and can run between two of those calls.                  *)
(***************************************************************************)
MaxSubs == 3
MaxPublishes == 2

Topics == {"error", "tool_call"}

(* A variant of TopicHandlers that returns the handlers of every topic *)
TopicHandlers_Any(h, topic) ==
    IF "error" \in DOMAIN h /\ "tool_call" \in DOMAIN h
    THEN h["error"] \o h["tool_call"]
    ELSE IF topic \in DOMAIN h THEN h[topic] ELSE <<>>

(* bus.go lines 25 and 32-33: b.handlers[topic], nil for a missing key *)
TopicHandlers(h, topic) == IF topic \in DOMAIN h THEN h[topic] ELSE <<>>

(* bus.go lines 22-26: Subscribe; the handler is named by its number *)
EbSubscribe ==
    /\ Len(ebSubs) < MaxSubs
    /\ \E topic \in Topics :
          LET id == Len(ebSubs) + 1
          IN  /\ ebHandlers' =
                    [t \in DOMAIN ebHandlers \cup {topic} |->
                        IF t = topic
                        THEN Append(TopicHandlers(ebHandlers, topic), id)
                        ELSE ebHandlers[t]]
              /\ ebSubs' = Append(ebSubs, topic)
    /\ UNCHANGED <<ebPc, ebEvent, ebQueue, ebAtCall, ebLog, notEbVars>>

(* bus.go lines 30-40: Publish is called: the slice is copied and the *)
(* event built                                                         *)
EbPublish ==
    /\ ebPc \in {"idle", "returned"}
    /\ (IF ebEvent = NIL THEN 0 ELSE ebEvent.payload) < MaxPublishes
    /\ \E topic \in Topics :
          /\ ebEvent' = [topic |-> topic,
                         payload |-> IF ebEvent = NIL THEN 1
                                     ELSE ebEvent.payload + 1]
          /\ ebQueue' = TopicHandlers(ebHandlers, topic)
          /\ ebAtCall' = IF topic \in DOMAIN ebHandlers
                         THEN ebHandlers[topic] ELSE <<>>
    /\ ebPc' = "copied"
    /\ UNCHANGED <<ebHandlers, ebSubs, ebLog, notEbVars>>

(* bus.go lines 41-43: the next handler of the copy is called and returns *)
EbCall ==
    /\ ebPc = "copied"
    /\ ebQueue # <<>>
    /\ ebLog' = Append(ebLog, [handler |-> Head(ebQueue),
                               topic |-> ebEvent.topic,
                               payload |-> ebEvent.payload])
    /\ ebQueue' = Tail(ebQueue)
    /\ UNCHANGED <<ebHandlers, ebSubs, ebPc, ebEvent, ebAtCall, notEbVars>>

(* bus.go line 44: the loop is over and Publish returns *)
EbReturn ==
    /\ ebPc = "copied"
    /\ ebQueue = <<>>
    /\ ebPc' = "returned"
    /\ UNCHANGED <<ebHandlers, ebSubs, ebEvent, ebQueue, ebAtCall, ebLog,
                   notEbVars>>

EbInit ==
    /\ notEbIdle
    /\ ebHandlers = <<>>
    /\ ebSubs = <<>>
    /\ ebPc = "idle"
    /\ ebEvent = NIL
    /\ ebQueue = <<>>
    /\ ebAtCall = <<>>
    /\ ebLog = <<>>

EbNext ==
    \/ EbSubscribe
    \/ EbPublish
    \/ EbCall
    \/ EbReturn

BusSpec == EbInit /\ [][EbNext]_vars

(* The handlers called for the publish numbered p, in the order of the calls *)
CalledFor(p) ==
    LET calls == SelectSeq(ebLog, LAMBDA c : c.payload = p)
    IN  [i \in DOMAIN calls |-> calls[i].handler]

(* C34: Publish calls every handler subscribed to the topic at the moment  *)
(* of the call exactly once, in registration order, and returns only after *)
(* the last has returned; handlers of other topics are not called, and a   *)
(* subscriber sees successive publishes in publish order.                  *)
C34_PublishDelivers ==
    /\ ebPc = "returned" => CalledFor(ebEvent.payload) = ebAtCall
    /\ \A i \in DOMAIN ebLog : ebSubs[ebLog[i].handler] = ebLog[i].topic
    /\ \A i, j \in DOMAIN ebLog : i < j => ebLog[i].payload <= ebLog[j].payload
    /\ \A i, j \in DOMAIN ebAtCall : i < j => ebAtCall[i] < ebAtCall[j]

(* The second publish has returned after calling the one handler its topic *)
(* had at the call; the topic got a second handler since the call, and     *)
(* another topic has a handler                                             *)
C34_Witness ==
    /\ ebPc = "returned"
    /\ Len(ebAtCall) = 1
    /\ Len(TopicHandlers(ebHandlers, ebEvent.topic)) = 2
    /\ ebEvent.payload = 2
    /\ \E s \in DOMAIN ebSubs : ebSubs[s] # ebEvent.topic

(***************************************************************************)
(* TelegramChannel and its allow-list.  part_004 lines 15-40, 62-86 and    *)
(* 149-153.  NewTelegramChannel turns the configured list of ids into a    *)
(* map; the OnText handler drops an update when the map is not empty and   *)
(* does not hold the sender's id, and otherwise calls the handler that     *)
(* OnMessage registered, if any.                                           *)
(***************************************************************************)
MaxUpdates == 2

SenderIDs == {7, 8, 9}

(* config.go line 39: allowed_ids, a list that may repeat an id *)
AllowedIDLists ==
    {<<>>} \cup {<<a>> : a \in {7, 8}} \cup {<<a, b>> : a \in {7, 8}, b \in {7, 8}}

(* part_004 lines 31-35: allowed[id] = true for every id of the list *)
NewAllowed(ids) == {ids[i] : i \in DOMAIN ids}

(* A variant of Authorized without the test of the map's length *)
Authorized_ListedOnly(allowed, sender) == sender \in allowed

(* part_004 lines 66-69: len(t.allowedIDs) > 0 && !t.allowedIDs[sender.ID] *)
(* is the case that is dropped                                              *)
Authorized(allowed, sender) ==
    ~(Cardinality(allowed) > 0 /\ ~(sender \in allowed))

(* part_004 lines 149-153, agent.go lines 58-62: the agent registers its *)
(* callback                                                               *)
TgOnMessage ==
    /\ ~tgHandler
    /\ tgHandler' = TRUE
    /\ UNCHANGED <<tgAllowed, tgLog, tgLast, notTgVars>>

(* part_004 lines 62-86: a text update from a sender in a chat *)
TgOnText ==
    /\ Len(tgLog) < MaxUpdates
    /\ \E sender \in SenderIDs, chat \in {"101", "102"} :
          LET handed == Authorized(tgAllowed, sender) /\ tgHandler
          IN  /\ tgLog' = IF handed
                          THEN Append(tgLog, [sender |-> sender, chat |-> chat])
                          ELSE tgLog
              /\ tgLast' = [sender |-> sender, chat |-> chat,
                            handler |-> tgHandler, handed |-> handed]
    /\ UNCHANGED <<tgAllowed, tgHandler, notTgVars>>

TgInit ==
    /\ notTgIdle
    /\ \E ids \in AllowedIDLists : tgAllowed = NewAllowed(ids)
    /\ tgHandler = FALSE
    /\ tgLog = <<>>
    /\ tgLast = NIL

TgNext ==
    \/ TgOnMessage
    \/ TgOnText

TelegramSpec == TgInit /\ [][TgNext]_vars

(* C35: with a non-empty allow-list a message whose sender id is not in    *)
(* the list never reaches the channel's message handler (no turn, nothing  *)
(* stored, no reply); with an empty allow-list every sender's message is   *)
(* handed to the handler.                                                  *)
C35_AllowListGates ==
    /\ \A i \in DOMAIN tgLog :
          tgAllowed # {} => tgLog[i].sender \in tgAllowed
    /\ tgLast # NIL =>
          /\ (tgAllowed # {} /\ tgLast.sender \notin tgAllowed) => ~tgLast.handed
          /\ (tgAllowed = {} /\ tgLast.handler) => tgLast.handed

(* With the allow-list {7}, a message of sender 7 was handed to the handler *)
(* and the next one, of sender 8, was dropped                               *)
C35_Witness ==
    /\ tgAllowed = {7}
    /\ Len(tgLog) = 1
    /\ tgLast # NIL
    /\ tgLast.sender = 8
    /\ tgLast.handler
    /\ ~tgLast.handed

(***************************************************************************)
(* The LLM settings.  part_000 lines 399-411, 643-658, 687-697, 819-834,   *)
(* part_007 lines 89-106.  SaveLLMConfig checks a non-empty base URL,      *)
(* assigns the four settings and saves; the provider name is looked at     *)
(* only by NewProvider, which initAgent calls and whose error initAgent    *)
(* logs.  The key store is taken to work here, so that saveConfig returns  *)
(* what the write of the file returns.                                     *)
(***************************************************************************)
ProviderNames == {"openai", "anthropic", "bogus"}

BaseURLs == {<<>>, <<"h", "t", "t", "p", ":", "/", "/", "a", ".", "i", "o">>, <<"H", "T", "T", "P", "S", ":", "/", "/", "a", ".", "i", "o", "/", "v", "1">>, <<"f", "t", "p", ":", "/", "/", "a", ".", "i", "o">>,
             <<"h", "t", "t", "p", ":", "/", "/">>, <<"h", "t", "t", "p", ":", "/", "/", "/", "v", "1">>, <<"h", "t", "t", "p", ":", "/", "/", "a", " ", "b", "/">>, <<"a", ".", "i", "o", "/", "v", "1">>}

(* part_000 lines 819-834: TRUE when validateBaseURL returns an error *)
validateBaseURL(rawURL) ==
    LET u == urlParse(rawURL)
    IN  IF u.err THEN TRUE
        ELSE IF u.Scheme \notin {<<"h", "t", "t", "p">>, <<"h", "t", "t", "p", "s">>} THEN TRUE
        ELSE u.Host = <<>>

(* part_007 lines 89-106: TRUE when NewProvider returns an error *)
NewProvider(name) == name \notin {"openai", "openrouter", "local", "anthropic"}

(* part_000 lines 643-658 *)
LcSaveLLMConfig ==
    \E provider \in ProviderNames, baseURL \in BaseURLs, diskOk \in BOOLEAN :
       LET rejected == baseURL # <<>> /\ validateBaseURL(baseURL)
           cfg == [provider |-> provider, baseURL |-> baseURL]
       IN  /\ lcCfg' = IF rejected THEN lcCfg ELSE cfg
           /\ lcDisk' = IF rejected \/ ~diskOk THEN lcDisk ELSE cfg
           /\ lcLast' = [provider |-> provider, baseURL |-> baseURL,
                         err |-> rejected \/ ~diskOk,
                         cfg |-> lcCfg, disk |-> lcDisk, agent |-> lcAgent]
           /\ UNCHANGED <<lcAgent, notLcVars>>

(* part_000 lines 687-697 and 399-411: CompleteSetup saves and calls    *)
(* initAgent, which builds the provider named by the configuration or   *)
(* logs NewProvider's error and returns                                  *)
LcCompleteSetup ==
    /\ lcAgent' = IF NewProvider(lcCfg.provider) THEN lcAgent ELSE lcCfg.provider
    /\ lcDisk' = lcCfg
    /\ lcLast' = NIL
    /\ UNCHANGED <<lcCfg, notLcVars>>

LcInit ==
    /\ notLcIdle
    /\ lcCfg = [provider |-> "openai", baseURL |-> <<>>]
    /\ lcDisk = [provider |-> "openai", baseURL |-> <<>>]
    /\ lcAgent = "none"
    /\ lcLast = NIL

LcNext ==
    \/ LcSaveLLMConfig
    \/ LcCompleteSetup

ConfigSpec == LcInit /\ [][LcNext]_vars

(* The base URLs the claim calls invalid: unparseable, a scheme other than *)
(* http or https, or an empty host                                         *)
InvalidBaseURL(rawURL) ==
    /\ rawURL # <<>>
    /\ \/ urlParse(rawURL).err
       \/ urlParse(rawURL).Scheme \notin {<<"h", "t", "t", "p">>, <<"h", "t", "t", "p", "s">>}
       \/ urlParse(rawURL).Host = <<>>

LcUnchanged ==
    /\ lcLast.err
    /\ lcCfg = lcLast.cfg
    /\ lcDisk = lcLast.disk
    /\ lcAgent = lcLast.agent

(* C36: a configuration-mutation call with an invalid base URL or with an  *)
(* unknown provider name returns an error and leaves the configuration in  *)
(* memory, the configuration on disk and the running agent unchanged.      *)
C36_InvalidSettingsRejected ==
    (lcLast # NIL /\ (InvalidBaseURL(lcLast.baseURL) \/ NewProvider(lcLast.provider)))
       => LcUnchanged

(* The part about the base URL alone *)
C36_InvalidURLRejected ==
    (lcLast # NIL /\ InvalidBaseURL(lcLast.baseURL)) => LcUnchanged

(* C37: every call of saveConfig terminates, returning success or an error, *)
(* also when no key store is available and when storing a secret in the key *)
(* store fails; in those cases the file is written with the plaintext value *)
(* as the fallback.                                                         *)
C37_SaveConfigReturns ==
    /\ appPc # "crashed"
    /\ (appLast # NIL /\ appLast.ok /\ ~appKeyStore) => appDisk = appLast.before

(* The placeholders the Sanitize call of this SendMessage produced, with *)
(* the literal each stood for                                            *)
Produced ==
    {<<guiSan[j], guiText[j]>> : j \in {k \in 1..Len(guiText) : guiText[k] # guiSan[k]}}

(* C38: Restore never replaces a placeholder with a literal other than the *)
(* one it stood for in the Sanitize call that produced the text: after a   *)
(* capacity clear has restarted the numbering, a placeholder minted before *)
(* the clear is left as it is rather than mapped to a literal sanitized    *)
(* after the clear.                                                        *)
C38_RestoreOwnLiterals ==
    guiPc = "returned" =>
       \A i \in 1..Len(guiResp) :
          \A p \in Produced :
             p[1] = guiResp[i] => guiOut[i] \in {guiResp[i], p[2]}

=============================================================================
